---------------------------- MODULE Spec2Model ----------------------------
(***************************************************************************)
(* A model of the caddyfile-rs pipeline: tokenize (lexer.rs), parse        *)
(* (parser.rs), parse_address (ast.rs), format (formatter.rs) and          *)
(* parse_str (lib.rs).                                                     *)
(*                                                                         *)
(* Text is a sequence of bytes; a byte is written as a one-character       *)
(* string ("a", "\n", "{").  Byte offsets are 0-based as in the source     *)
(* (self.pos); the byte at offset p of a text is input[p + 1].  An         *)
(* Option<T> is a sequence of length at most one: None is <<>> and         *)
(* Some(x) is <<x>>.                                                       *)
(***************************************************************************)
EXTENDS Integers, Sequences, FiniteSets, TLC

None == <<>>
Some(x) == <<x>>
IsSome(o) == o # <<>>
Unwrap(o) == o[1]

(***************************************************************************)
(* String helpers of the Rust standard library, as the code uses them.     *)
(***************************************************************************)
\* s[from..to] with 0-based byte offsets, to excluded
Slice(s, from, to) == SubSeq(s, from + 1, to)

starts_with(s, prefix) ==
    /\ Len(s) >= Len(prefix)
    /\ SubSeq(s, 1, Len(prefix)) = prefix

ends_with(s, suffix) ==
    /\ Len(s) >= Len(suffix)
    /\ SubSeq(s, Len(s) - Len(suffix) + 1, Len(s)) = suffix

\* str::trim: the lexer's inputs hold no other Unicode white space
WhiteSpace == {" ", "\t", "\n", "\r"}

RECURSIVE trim_start(_)
trim_start(s) ==
    IF s # <<>> /\ Head(s) \in WhiteSpace THEN trim_start(Tail(s)) ELSE s

RECURSIVE trim_end(_)
trim_end(s) ==
    IF s # <<>> /\ s[Len(s)] \in WhiteSpace
    THEN trim_end(SubSeq(s, 1, Len(s) - 1)) ELSE s

trim(s) == trim_end(trim_start(s))

RECURSIVE trim_end_matches(_, _)
trim_end_matches(s, c) ==
    IF s # <<>> /\ s[Len(s)] = c
    THEN trim_end_matches(SubSeq(s, 1, Len(s) - 1), c) ELSE s

\* str::find / str::rfind of one byte: the 0-based offset, or -1
RECURSIVE FindFrom(_, _, _)
FindFrom(s, c, p) ==
    IF p >= Len(s) THEN -1
    ELSE IF s[p + 1] = c THEN p ELSE FindFrom(s, c, p + 1)

find(s, c) == FindFrom(s, c, 0)

RECURSIVE RFindFrom(_, _, _)
RFindFrom(s, c, p) ==
    IF p < 0 THEN -1
    ELSE IF s[p + 1] = c THEN p ELSE RFindFrom(s, c, p - 1)

rfind(s, c) == RFindFrom(s, c, Len(s) - 1)

(***************************************************************************)
(* token.rs                                                                *)
(***************************************************************************)
\* Span { file, line, column }; the lexer and the parser never name a file
Span(line, column) == [file |-> None, line |-> line, column |-> column]

\* Token { kind, text, span }; marker belongs to TokenKind::Heredoc, name
\* and default to TokenKind::EnvVar
Token(kind, text, span) ==
    [kind |-> kind, text |-> text, span |-> span,
     marker |-> <<>>, name |-> <<>>, default |-> None]

HeredocToken(marker, text, span) ==
    [kind |-> "Heredoc", text |-> text, span |-> span,
     marker |-> marker, name |-> <<>>, default |-> None]

EnvVarToken(name, default, text, span) ==
    [kind |-> "EnvVar", text |-> text, span |-> span,
     marker |-> <<>>, name |-> name, default |-> default]

(***************************************************************************)
(* lexer.rs                                                                *)
(*                                                                         *)
(* The lexer state is [pos, line, col].  A LexError is [kind, marker,      *)
(* span]; the model adds  at,  the byte offset at which the reader that    *)
(* raised the error was entered (the code keeps only the line and column   *)
(* it saved there).                                                        *)
(***************************************************************************)
\* the byte-order mark, and the backtick byte (0x60), which a TLA+ string
\* cannot hold
BOM == <<"0xEF", "0xBB", "0xBF">>

BackTick == "0x60"

NoByte == "EOF"

LexError(kind, marker, st) ==
    [kind |-> kind, marker |-> marker, span |-> Span(st.line, st.col),
     at |-> st.pos]

NoError == [kind |-> "none"]

\* Lexer::new
NewLexer(input) ==
    [pos |-> IF starts_with(input, BOM) THEN 3 ELSE 0, line |-> 1, col |-> 1]

\* Lexer::peek / Lexer::peek_at
peek_at(input, st, offset) ==
    IF st.pos + offset < Len(input) THEN input[st.pos + offset + 1] ELSE NoByte

peek(input, st) == peek_at(input, st, 0)

\* Lexer::advance
advance(input, st) ==
    IF st.pos < Len(input)
    THEN IF input[st.pos + 1] = "\n"
         THEN [pos |-> st.pos + 1, line |-> st.line + 1, col |-> 1]
         ELSE [pos |-> st.pos + 1, line |-> st.line, col |-> st.col + 1]
    ELSE st

\* if self.peek() == Some(byte) { self.advance(); }
advance_if(input, st, byte) ==
    IF peek(input, st) = byte THEN advance(input, st) ELSE st

\* self.pos += 1; self.col += 1;
Bump(st) == [st EXCEPT !.pos = @ + 1, !.col = @ + 1]

\* the loops: while pos < len && input[pos] is no stop byte { pos += 1; col += 1 }
RECURSIVE ScanUntil(_, _, _)
ScanUntil(input, st, stops) ==
    IF st.pos < Len(input) /\ input[st.pos + 1] \notin stops
    THEN ScanUntil(input, Bump(st), stops)
    ELSE st

\* Lexer::make_token
make_token(st, kind, text) == Token(kind, text, Span(st.line, st.col))

\* what a reader returns: the token and the lexer state after it, or the error
ReadOk(st, tok) == [ok |-> TRUE, st |-> st, tok |-> tok, err |-> NoError]
ReadErr(st, err) == [ok |-> FALSE, st |-> st, tok |-> <<>>, err |-> err]

\* Lexer::read_comment
read_comment(input, st) ==
    LET Made(end) ==
            ReadOk(end, Token("Comment", Slice(input, st.pos, end.pos),
                              Span(st.line, st.col)))
    IN Made(ScanUntil(input, st, {"\n"}))

\* Lexer::read_quoted_string: the loop after the opening quote; [ok, st, value]
RECURSIVE QuotedLoop(_, _, _)
QuotedLoop(input, st, value) ==
    LET Escape(s1, e) ==
            CASE e = NoByte -> QuotedLoop(input, s1, Append(value, "\\"))
              [] e = "n" -> QuotedLoop(input, advance(input, s1), Append(value, "\n"))
              [] e = "t" -> QuotedLoop(input, advance(input, s1), Append(value, "\t"))
              [] e = "r" -> QuotedLoop(input, advance(input, s1), Append(value, "\r"))
              [] e = "\"" -> QuotedLoop(input, advance(input, s1), Append(value, "\""))
              [] e = "\\" -> QuotedLoop(input, advance(input, s1), Append(value, "\\"))
              [] OTHER -> QuotedLoop(input, advance(input, s1), value \o <<"\\", e>>)
        Byte(c) ==
            CASE c = NoByte -> [ok |-> FALSE, st |-> st, value |-> value]
              [] c = "\\" -> Escape(advance(input, st), peek_at(input, st, 1))
              [] c = "\"" -> [ok |-> TRUE, st |-> advance(input, st), value |-> value]
              [] OTHER -> QuotedLoop(input, advance(input, st), Append(value, c))
    IN Byte(peek(input, st))

read_quoted_string(input, st) ==
    LET Result(r) ==
            IF r.ok
            THEN ReadOk(r.st, Token("QuotedString", r.value, Span(st.line, st.col)))
            ELSE ReadErr(r.st, LexError("UnterminatedString", <<>>, st))
    IN Result(QuotedLoop(input, advance(input, st), <<>>))

\* Lexer::read_backtick_string: the loop after the opening backtick
RECURSIVE BacktickLoop(_, _, _)
BacktickLoop(input, st, value) ==
    LET Byte(c) ==
            CASE c = NoByte -> [ok |-> FALSE, st |-> st, value |-> value]
              [] c = BackTick -> [ok |-> TRUE, st |-> advance(input, st), value |-> value]
              [] OTHER -> BacktickLoop(input, advance(input, st), Append(value, c))
    IN Byte(peek(input, st))

read_backtick_string(input, st) ==
    LET Result(r) ==
            IF r.ok
            THEN ReadOk(r.st, Token("BacktickString", r.value, Span(st.line, st.col)))
            ELSE ReadErr(r.st, LexError("UnterminatedBacktick", <<>>, st))
    IN Result(BacktickLoop(input, advance(input, st), <<>>))

\* try_read_env_var without the restore of pos, line and col
try_read_env_var_unrestored(input, st) ==
    LET Close(name, default, s) ==
            IF peek(input, s) # "}" THEN ReadErr(s, NoError)
            ELSE ReadOk(Bump(s),
                        EnvVarToken(name, default, Slice(input, st.pos, s.pos + 1),
                                    Span(st.line, st.col)))
        Default(name, def_start, def_end) ==
            Close(name, Some(Slice(input, def_start.pos, def_end.pos)), def_end)
        Name(name_start, name_end) ==
            IF peek(input, name_end) = ":"
            THEN Default(Slice(input, name_start.pos, name_end.pos), Bump(name_end),
                         ScanUntil(input, Bump(name_end), {"}", "\n"}))
            ELSE Close(Slice(input, name_start.pos, name_end.pos), None, name_end)
        Start(s2) == Name(s2, ScanUntil(input, s2, {"}", ":", "\n"}))
    IN IF peek_at(input, st, 1) # "$" THEN ReadErr(st, NoError)
       ELSE Start(advance(input, advance(input, st)))

\* Lexer::try_read_env_var: ok is the returned bool; on false the state is
\* the one the code leaves (restored, or untouched)
try_read_env_var(input, st) ==
    LET Restored == ReadErr(st, NoError)
        \* after the name and the optional default, at lexer state s
        Close(name, default, s) ==
            IF peek(input, s) # "}" THEN Restored
            ELSE ReadOk(Bump(s),
                        EnvVarToken(name, default, Slice(input, st.pos, s.pos + 1),
                                    Span(st.line, st.col)))
        Default(name, def_start, def_end) ==
            Close(name, Some(Slice(input, def_start.pos, def_end.pos)), def_end)
        Name(name_start, name_end) ==
            IF peek(input, name_end) = ":"
            THEN Default(Slice(input, name_start.pos, name_end.pos), Bump(name_end),
                         ScanUntil(input, Bump(name_end), {"}", "\n"}))
            ELSE Close(Slice(input, name_start.pos, name_end.pos), None, name_end)
        Start(s2) == Name(s2, ScanUntil(input, s2, {"}", ":", "\n"}))
    IN IF peek_at(input, st, 1) # "$" THEN Restored
       ELSE Start(advance(input, advance(input, st)))

\* content.strip_suffix('\n').or_else(|| content.strip_suffix("\r\n")).unwrap_or(&content)
StripNewline(content) ==
    IF ends_with(content, <<"\n">>) THEN SubSeq(content, 1, Len(content) - 1)
    ELSE IF ends_with(content, <<"\r", "\n">>) THEN SubSeq(content, 1, Len(content) - 2)
    ELSE content

\* Lexer::read_heredoc: the while loop over the lines; start is the lexer state
\* at the first '<'
RECURSIVE HeredocLines(_, _, _, _, _)
HeredocLines(input, st, marker, content_start, start) ==
    LET Line(line_start, eol) ==
            IF trim(Slice(input, line_start, eol.pos)) = marker
            THEN ReadOk(advance_if(input, eol, "\n"),
                        HeredocToken(marker,
                                     StripNewline(Slice(input, content_start, line_start)),
                                     Span(start.line, start.col)))
            ELSE HeredocLines(input, advance_if(input, eol, "\n"), marker,
                              content_start, start)
    IN IF st.pos >= Len(input)
       THEN ReadErr(st, LexError("UnterminatedHeredoc", marker, start))
       ELSE Line(st.pos, ScanUntil(input, st, {"\n"}))

\* Lexer::read_heredoc
read_heredoc(input, st) ==
    LET Content(marker, s) == HeredocLines(input, s, marker, s.pos, st)
        Marker(marker_start, marker_end) ==
            IF marker_start.pos = marker_end.pos
            THEN ReadErr(marker_end, LexError("EmptyHeredocMarker", <<>>, st))
            ELSE Content(Slice(input, marker_start.pos, marker_end.pos),
                         advance_if(input, advance_if(input, marker_end, "\r"), "\n"))
        Start(s2) == Marker(s2, ScanUntil(input, s2, {"\n", "\r", " ", "\t"}))
    IN Start(advance(input, advance(input, st)))

\* the loop of read_word ending the word at every brace
RECURSIVE WordLoop_brace_ends(_, _, _)
WordLoop_brace_ends(input, st, start) ==
    LET Byte(ch) ==
            CASE ch \in {" ", "\t", "\n", "\r"} -> st
              [] ch \in {"{", "}"} -> st
              [] ch = "\\" ->
                    IF st.pos + 1 < Len(input)
                    THEN WordLoop_brace_ends(input, Bump(Bump(st)), start)
                    ELSE WordLoop_brace_ends(input, Bump(st), start)
              [] OTHER -> WordLoop_brace_ends(input, Bump(st), start)
    IN IF st.pos >= Len(input) THEN st ELSE Byte(input[st.pos + 1])

\* the loop of read_word ending the word at a backslash
RECURSIVE WordLoop_backslash_ends(_, _, _)
WordLoop_backslash_ends(input, st, start) ==
    LET Byte(ch) ==
            CASE ch \in {" ", "\t", "\n", "\r"} -> st
              [] ch \in {"{", "}"} ->
                    IF ch = "{" /\ peek_at(input, st, 1) = "$" THEN st
                    ELSE IF st.pos = start THEN st
                    ELSE WordLoop_backslash_ends(input, Bump(st), start)
              [] ch = "\\" -> st
              [] OTHER -> WordLoop_backslash_ends(input, Bump(st), start)
    IN IF st.pos >= Len(input) THEN st ELSE Byte(input[st.pos + 1])

\* Lexer::read_word: the while loop; start is the byte offset of the word
RECURSIVE WordLoop(_, _, _)
WordLoop(input, st, start) ==
    LET Byte(ch) ==
            CASE ch \in {" ", "\t", "\n", "\r"} -> st
              [] ch \in {"{", "}"} ->
                    IF ch = "{" /\ peek_at(input, st, 1) = "$" THEN st
                    ELSE IF st.pos = start THEN st
                    ELSE WordLoop(input, Bump(st), start)
              [] ch = "\\" ->
                    IF st.pos + 1 < Len(input)
                    THEN WordLoop(input, Bump(Bump(st)), start)
                    ELSE WordLoop(input, Bump(st), start)
              [] OTHER -> WordLoop(input, Bump(st), start)
    IN IF st.pos >= Len(input) THEN st ELSE Byte(input[st.pos + 1])

\* Lexer::read_word
read_word(input, st) ==
    LET Word(end) ==
            IF end.pos = st.pos
            THEN ReadErr(end, LexError("UnexpectedCharacter", <<input[st.pos + 1]>>, st))
            ELSE ReadOk(end, Token("Word", Slice(input, st.pos, end.pos),
                                   Span(st.line, st.col)))
    IN IF input[st.pos + 1] = "<" /\ peek_at(input, st, 1) = "<"
       THEN read_heredoc(input, st)
       ELSE Word(WordLoop(input, st, st.pos))

\* one iteration of the loop leaving a space or a tab where it is
LoopBody_blank_kept(input, st) ==
    LET Pushed(s, toks) == [ok |-> TRUE, st |-> s, toks |-> toks, err |-> NoError]
        Read(r) == IF r.ok THEN Pushed(r.st, <<r.tok>>)
                   ELSE [ok |-> FALSE, st |-> r.st, toks |-> <<>>, err |-> r.err]
        CarriageReturn(s2) ==
            Pushed(s2, <<Token("Newline", <<"\n">>, Span(s2.line - 1, s2.col))>>)
        Brace(r) ==
            IF r.ok THEN Pushed(r.st, <<r.tok>>)
            ELSE Pushed(advance(input, r.st), <<make_token(r.st, "OpenBrace", <<"{">>)>>)
        Byte(ch) ==
            CASE ch = "\n" ->
                    Pushed(advance(input, st), <<make_token(st, "Newline", <<"\n">>)>>)
              [] ch = "\r" -> CarriageReturn(advance_if(input, advance(input, st), "\n"))
              [] ch \in {" ", "\t"} -> Pushed(st, <<>>)
              [] ch = "#" -> Read(read_comment(input, st))
              [] ch = "{" -> Brace(try_read_env_var(input, st))
              [] ch = "}" ->
                    Pushed(advance(input, st), <<make_token(st, "CloseBrace", <<"}">>)>>)
              [] ch = "\"" -> Read(read_quoted_string(input, st))
              [] ch = BackTick -> Read(read_backtick_string(input, st))
              [] ch = "\\" /\ peek_at(input, st, 1) = "\n" ->
                    Pushed(advance(input, advance(input, st)), <<>>)
              [] ch = "\\" /\ peek_at(input, st, 1) = "\r" ->
                    Pushed(advance_if(input, advance(input, advance(input, st)), "\n"),
                           <<>>)
              [] OTHER -> Read(read_word(input, st))
    IN Byte(input[st.pos + 1])

\* Lexer::tokenize: one iteration of the while loop, from lexer state st:
\* [ok, st, toks, err], toks the tokens the iteration pushed
LoopBody(input, st) ==
    LET Pushed(s, toks) == [ok |-> TRUE, st |-> s, toks |-> toks, err |-> NoError]
        Read(r) == IF r.ok THEN Pushed(r.st, <<r.tok>>)
                   ELSE [ok |-> FALSE, st |-> r.st, toks |-> <<>>, err |-> r.err]
        CarriageReturn(s2) ==
            Pushed(s2, <<Token("Newline", <<"\n">>, Span(s2.line - 1, s2.col))>>)
        Brace(r) ==
            IF r.ok THEN Pushed(r.st, <<r.tok>>)
            ELSE Pushed(advance(input, r.st), <<make_token(r.st, "OpenBrace", <<"{">>)>>)
        Byte(ch) ==
            CASE ch = "\n" ->
                    Pushed(advance(input, st), <<make_token(st, "Newline", <<"\n">>)>>)
              [] ch = "\r" -> CarriageReturn(advance_if(input, advance(input, st), "\n"))
              [] ch \in {" ", "\t"} -> Pushed(advance(input, st), <<>>)
              [] ch = "#" -> Read(read_comment(input, st))
              [] ch = "{" -> Brace(try_read_env_var(input, st))
              [] ch = "}" ->
                    Pushed(advance(input, st), <<make_token(st, "CloseBrace", <<"}">>)>>)
              [] ch = "\"" -> Read(read_quoted_string(input, st))
              [] ch = BackTick -> Read(read_backtick_string(input, st))
              [] ch = "\\" /\ peek_at(input, st, 1) = "\n" ->
                    Pushed(advance(input, advance(input, st)), <<>>)
              [] ch = "\\" /\ peek_at(input, st, 1) = "\r" ->
                    Pushed(advance_if(input, advance(input, advance(input, st)), "\n"),
                           <<>>)
              [] OTHER -> Read(read_word(input, st))
    IN Byte(input[st.pos + 1])

\* Lexer::tokenize: the while loop.  A loop state is [run, ok, st, tokens,
\* err]: run while the loop is still iterating, ok once it left through
\* Ok(tokens), err set once an iteration returned Err.
LoopStep(input, L) ==
    LET Iteration(r) ==
            IF r.ok
            THEN [L EXCEPT !.st = r.st, !.tokens = @ \o r.toks]
            ELSE [L EXCEPT !.run = FALSE, !.st = r.st, !.err = r.err]
    IN IF ~L.run THEN L
       ELSE IF L.st.pos >= Len(input) THEN [L EXCEPT !.run = FALSE, !.ok = TRUE]
       ELSE Iteration(LoopBody(input, L.st))

\* up to n successive iterations, stopping when the loop has exited; the
\* split in halves only keeps the evaluation shallow
RECURSIVE Iterate(_, _, _)
Iterate(input, L, n) ==
    LET Second(half) ==
            IF half.run THEN Iterate(input, half, n - (n \div 2)) ELSE half
    IN IF n = 0 THEN L
       ELSE IF n = 1 THEN LoopStep(input, L)
       ELSE Second(Iterate(input, L, n \div 2))

\* The loop runs to its exit.  Len(input) + 1 iterations reach it when every
\* iteration consumes a byte; a loop still running after them is reported
\* as kind "Diverged", which no run of the code returns.
TokenizeLoop(input, st) ==
    LET Exit(L) ==
            IF L.run
            THEN [ok |-> FALSE, tokens |-> <<>>, err |-> LexError("Diverged", <<>>, L.st)]
            ELSE [ok |-> L.ok, tokens |-> IF L.ok THEN L.tokens ELSE <<>>,
                  err |-> L.err]
    IN Exit(Iterate(input,
                    [run |-> TRUE, ok |-> FALSE, st |-> st, tokens |-> <<>>,
                     err |-> NoError],
                    Len(input) + 1))

\* lexer::tokenize
tokenize(input) == TokenizeLoop(input, NewLexer(input))

\* Lexer::tokenize: the states of the while loop in the order the run goes
\* through them, from L on and at most n iterations far
RECURSIVE LoopStates(_, _, _)
LoopStates(input, L, n) ==
    IF n = 0 \/ ~L.run THEN <<L>>
    ELSE <<L>> \o LoopStates(input, LoopStep(input, L), n - 1)

\* the loop states of tokenize(input)
TokenizeStates(input) ==
    LoopStates(input,
               [run |-> TRUE, ok |-> FALSE, st |-> NewLexer(input), tokens |-> <<>>,
                err |-> NoError],
               Len(input) + 1)

(***************************************************************************)
(* ast.rs                                                                  *)
(***************************************************************************)
Caddyfile(global_options, snippets, named_routes, sites) ==
    [global_options |-> global_options, snippets |-> snippets,
     named_routes |-> named_routes, sites |-> sites]

\* Snippet and NamedRoute
Named(name, directives) == [name |-> name, directives |-> directives]

SiteBlock(addresses, directives) ==
    [addresses |-> addresses, directives |-> directives]

Address(scheme, host, port, path) ==
    [scheme |-> scheme, host |-> host, port |-> port, path |-> path]

Directive(name, matcher, arguments, block) ==
    [name |-> name, matcher |-> matcher, arguments |-> arguments,
     block |-> block]

\* Matcher::All, Matcher::Path(p), Matcher::Named(n)
MatcherAll == [tag |-> "All", val |-> <<>>]
MatcherPath(p) == [tag |-> "Path", val |-> p]
MatcherNamed(n) == [tag |-> "Named", val |-> n]

\* Argument::Unquoted(s), Quoted(s), Backtick(s), Heredoc { marker, content }
Unquoted(s) == [tag |-> "Unquoted", val |-> s, marker |-> <<>>]
Quoted(s) == [tag |-> "Quoted", val |-> s, marker |-> <<>>]
Backtick(s) == [tag |-> "Backtick", val |-> s, marker |-> <<>>]
Heredoc(marker, content) == [tag |-> "Heredoc", val |-> content, marker |-> marker]

Digits == {"0", "1", "2", "3", "4", "5", "6", "7", "8", "9"}

DigitValue(c) ==
    CASE c = "0" -> 0 [] c = "1" -> 1 [] c = "2" -> 2 [] c = "3" -> 3
      [] c = "4" -> 4 [] c = "5" -> 5 [] c = "6" -> 6 [] c = "7" -> 7
      [] c = "8" -> 8 [] c = "9" -> 9

DigitChar(n) ==
    CASE n = 0 -> "0" [] n = 1 -> "1" [] n = 2 -> "2" [] n = 3 -> "3"
      [] n = 4 -> "4" [] n = 5 -> "5" [] n = 6 -> "6" [] n = 7 -> "7"
      [] n = 8 -> "8" [] n = 9 -> "9"

U16Max == 65535

\* str::parse::<u16>: an optional '+', then one or more decimal digits, the
\* value at most u16::MAX; None for anything else
RECURSIVE DecimalValue(_, _)
DecimalValue(s, acc) ==
    IF s = <<>> THEN acc
    ELSE IF acc > U16Max THEN acc
    ELSE DecimalValue(Tail(s), 10 * acc + DigitValue(Head(s)))

parse_u16(s) ==
    LET digits == IF s # <<>> /\ Head(s) = "+" THEN Tail(s) ELSE s
    IN IF digits = <<>> \/ \E i \in 1..Len(digits) : digits[i] \notin Digits
       THEN None
       ELSE IF DecimalValue(digits, 0) > U16Max THEN None
       ELSE Some(DecimalValue(digits, 0))

\* u16::to_string
RECURSIVE to_string(_)
to_string(n) ==
    IF n < 10 THEN <<DigitChar(n)>>
    ELSE Append(to_string(n \div 10), DigitChar(n % 10))

HttpsPrefix == <<"h", "t", "t", "p", "s", ":", "/", "/">>
HttpPrefix == <<"h", "t", "t", "p", ":", "/", "/">>

\* parse_address splitting the host:port segment at its first ':'
parse_address_first_colon(addr) ==
    LET scheme == IF starts_with(addr, HttpsPrefix) THEN Some("Https")
                  ELSE IF starts_with(addr, HttpPrefix) THEN Some("Http")
                  ELSE None
        remaining == IF starts_with(addr, HttpsPrefix)
                     THEN Slice(addr, Len(HttpsPrefix), Len(addr))
                     ELSE IF starts_with(addr, HttpPrefix)
                          THEN Slice(addr, Len(HttpPrefix), Len(addr))
                          ELSE addr
        slash == find(remaining, "/")
        host_port == IF slash = -1 THEN remaining ELSE Slice(remaining, 0, slash)
        path == IF slash = -1 THEN None
                ELSE Some(Slice(remaining, slash, Len(remaining)))
        colon == find(host_port, ":")
        potential == Slice(host_port, colon + 1, Len(host_port))
        hasPort == colon # -1 /\ IsSome(parse_u16(potential))
    IN Address(scheme,
               IF hasPort THEN Slice(host_port, 0, colon) ELSE host_port,
               IF hasPort THEN parse_u16(potential) ELSE None,
               path)

\* ast::parse_address
parse_address(addr) ==
    LET scheme == IF starts_with(addr, HttpsPrefix) THEN Some("Https")
                  ELSE IF starts_with(addr, HttpPrefix) THEN Some("Http")
                  ELSE None
        remaining == IF starts_with(addr, HttpsPrefix)
                     THEN Slice(addr, Len(HttpsPrefix), Len(addr))
                     ELSE IF starts_with(addr, HttpPrefix)
                          THEN Slice(addr, Len(HttpPrefix), Len(addr))
                          ELSE addr
        slash == find(remaining, "/")
        host_port == IF slash = -1 THEN remaining ELSE Slice(remaining, 0, slash)
        path == IF slash = -1 THEN None
                ELSE Some(Slice(remaining, slash, Len(remaining)))
        colon == rfind(host_port, ":")
        potential == Slice(host_port, colon + 1, Len(host_port))
        hasPort == colon # -1 /\ IsSome(parse_u16(potential))
    IN Address(scheme,
               IF hasPort THEN Slice(host_port, 0, colon) ELSE host_port,
               IF hasPort THEN parse_u16(potential) ELSE None,
               path)

(***************************************************************************)
(* parser.rs                                                               *)
(*                                                                         *)
(* The parser state is the cursor pos (0-based) into tokens; the token     *)
(* under the cursor is tokens[pos + 1].  Each parse_* operator returns     *)
(* [ok, pos, val, err].  A ParseError is [kind, found, span]; the model    *)
(* adds  at,  the cursor at which the error was raised.                    *)
(***************************************************************************)
ParseError(kind, found, span, pos) ==
    [kind |-> kind, found |-> found, span |-> span, at |-> pos]

POk(pos, val) == [ok |-> TRUE, pos |-> pos, val |-> val, err |-> NoError]
PErr(pos, err) == [ok |-> FALSE, pos |-> pos, val |-> <<>>, err |-> err]

\* fault injection: eof_span taking the first token for the last
eof_span_first(tokens) ==
    IF tokens = <<>> THEN Span(1, 1) ELSE tokens[1].span

\* Parser::eof_span
eof_span(tokens) ==
    IF tokens = <<>> THEN Span(1, 1) ELSE tokens[Len(tokens)].span

\* Parser::skip_newlines_and_comments
RECURSIVE skip_newlines_and_comments(_, _)
skip_newlines_and_comments(tokens, pos) ==
    IF pos < Len(tokens) /\ tokens[pos + 1].kind \in {"Newline", "Comment"}
    THEN skip_newlines_and_comments(tokens, pos + 1)
    ELSE pos

\* Parser::skip_whitespace_tokens
RECURSIVE skip_whitespace_tokens(_, _)
skip_whitespace_tokens(tokens, pos) ==
    IF pos < Len(tokens) /\ tokens[pos + 1].kind = "Newline"
    THEN skip_whitespace_tokens(tokens, pos + 1)
    ELSE pos

\* expect_open_brace skipping the newlines only, not the comments
expect_open_brace_newlines_only(tokens, pos0) ==
    LET At(pos) ==
            IF pos >= Len(tokens)
            THEN PErr(pos, ParseError("ExpectedOpenBrace", None, eof_span(tokens), pos))
            ELSE IF tokens[pos + 1].kind # "OpenBrace"
            THEN PErr(pos, ParseError("ExpectedOpenBrace", Some(tokens[pos + 1].text),
                                      tokens[pos + 1].span, pos))
            ELSE POk(pos + 1, <<>>)
    IN At(skip_whitespace_tokens(tokens, pos0))

\* Parser::expect_open_brace
expect_open_brace(tokens, pos0) ==
    LET At(pos) ==
            IF pos >= Len(tokens)
            THEN PErr(pos, ParseError("ExpectedOpenBrace", None, eof_span(tokens), pos))
            ELSE IF tokens[pos + 1].kind # "OpenBrace"
            THEN PErr(pos, ParseError("ExpectedOpenBrace", Some(tokens[pos + 1].text),
                                      tokens[pos + 1].span, pos))
            ELSE POk(pos + 1, <<>>)
    IN At(skip_newlines_and_comments(tokens, pos0))

\* Parser::expect_close_brace
expect_close_brace(tokens, pos0) ==
    LET At(pos) ==
            IF pos >= Len(tokens)
            THEN PErr(pos, ParseError("ExpectedCloseBrace", None, eof_span(tokens), pos))
            ELSE IF tokens[pos + 1].kind # "CloseBrace"
            THEN PErr(pos, ParseError("ExpectedCloseBrace", Some(tokens[pos + 1].text),
                                      tokens[pos + 1].span, pos))
            ELSE POk(pos + 1, <<>>)
    IN At(skip_newlines_and_comments(tokens, pos0))

\* try_parse_matcher testing Word tokens only
try_parse_matcher_words_only(tokens, pos) ==
    LET Test(tok) ==
            IF tok.kind # "Word"
            THEN [pos |-> pos, val |-> None]
            ELSE IF tok.text = <<"*">>
            THEN [pos |-> pos + 1, val |-> Some(MatcherAll)]
            ELSE IF starts_with(tok.text, <<"@">>)
            THEN [pos |-> pos + 1, val |-> Some(MatcherNamed(Tail(tok.text)))]
            ELSE IF starts_with(tok.text, <<"/">>)
            THEN [pos |-> pos + 1, val |-> Some(MatcherPath(tok.text))]
            ELSE [pos |-> pos, val |-> None]
    IN IF pos >= Len(tokens) THEN [pos |-> pos, val |-> None]
       ELSE Test(tokens[pos + 1])

\* Parser::try_parse_matcher: [pos, val], val the Option<Matcher>
try_parse_matcher(tokens, pos) ==
    LET Test(tok) ==
            IF tok.kind \in {"Newline", "OpenBrace", "CloseBrace", "Comment"}
            THEN [pos |-> pos, val |-> None]
            ELSE IF tok.text = <<"*">>
            THEN [pos |-> pos + 1, val |-> Some(MatcherAll)]
            ELSE IF starts_with(tok.text, <<"@">>)
            THEN [pos |-> pos + 1, val |-> Some(MatcherNamed(Tail(tok.text)))]
            ELSE IF starts_with(tok.text, <<"/">>)
            THEN [pos |-> pos + 1, val |-> Some(MatcherPath(tok.text))]
            ELSE [pos |-> pos, val |-> None]
    IN IF pos >= Len(tokens) THEN [pos |-> pos, val |-> None]
       ELSE Test(tokens[pos + 1])

\* fault injection: token_to_argument losing the token kind
token_to_argument_unquoted(token) == Unquoted(token.text)

\* Parser::token_to_argument
token_to_argument(token) ==
    IF token.kind = "QuotedString" THEN Quoted(token.text)
    ELSE IF token.kind = "BacktickString" THEN Backtick(token.text)
    ELSE IF token.kind = "Heredoc" THEN Heredoc(token.marker, token.text)
    ELSE Unquoted(token.text)

\* the argument loop taking a Comment token for an argument
RECURSIVE ArgumentsLoop_comment_kept(_, _, _)
ArgumentsLoop_comment_kept(tokens, pos, arguments) ==
    LET Arg(tok) ==
            IF tok.kind = "Newline" THEN [pos |-> pos + 1, val |-> arguments]
            ELSE IF tok.kind \in {"OpenBrace", "CloseBrace"}
            THEN [pos |-> pos, val |-> arguments]
            ELSE ArgumentsLoop_comment_kept(tokens, pos + 1,
                                            Append(arguments, token_to_argument(tok)))
    IN IF pos >= Len(tokens) THEN [pos |-> pos, val |-> arguments]
       ELSE Arg(tokens[pos + 1])

\* Parser::parse_directive: the argument loop; [pos, val]
RECURSIVE ArgumentsLoop(_, _, _)
ArgumentsLoop(tokens, pos, arguments) ==
    LET Arg(tok) ==
            IF tok.kind = "Newline" THEN [pos |-> pos + 1, val |-> arguments]
            ELSE IF tok.kind \in {"OpenBrace", "CloseBrace"}
            THEN [pos |-> pos, val |-> arguments]
            ELSE IF tok.kind = "Comment" THEN ArgumentsLoop(tokens, pos + 1, arguments)
            ELSE ArgumentsLoop(tokens, pos + 1,
                               Append(arguments, token_to_argument(tok)))
    IN IF pos >= Len(tokens) THEN [pos |-> pos, val |-> arguments]
       ELSE Arg(tokens[pos + 1])

RECURSIVE parse_directives(_, _)
RECURSIVE parse_directive(_, _)
RECURSIVE DirectivesLoop(_, _, _)

\* parse_directive moving the cursor two tokens past the name
parse_directive_two_past(tokens, pos) ==
    LET Closed(m, a, sub, close) ==
            IF ~close.ok THEN close
            ELSE POk(close.pos,
                     Directive(tokens[pos + 1].text, m.val, a.val, Some(sub.val)))
        Block(m, a, sub) ==
            IF ~sub.ok THEN sub
            ELSE Closed(m, a, sub, expect_close_brace(tokens, sub.pos))
        Arguments(m, a) ==
            IF a.pos < Len(tokens) /\ tokens[a.pos + 1].kind = "OpenBrace"
            THEN Block(m, a, parse_directives(tokens, a.pos + 1))
            ELSE POk(a.pos, Directive(tokens[pos + 1].text, m.val, a.val, None))
        Matcher(m) == Arguments(m, ArgumentsLoop(tokens, m.pos, <<>>))
    IN Matcher(try_parse_matcher(tokens, pos + 2))

\* Parser::parse_directive
parse_directive(tokens, pos) ==
    LET Closed(m, a, sub, close) ==
            IF ~close.ok THEN close
            ELSE POk(close.pos,
                     Directive(tokens[pos + 1].text, m.val, a.val, Some(sub.val)))
        Block(m, a, sub) ==
            IF ~sub.ok THEN sub
            ELSE Closed(m, a, sub, expect_close_brace(tokens, sub.pos))
        Arguments(m, a) ==
            IF a.pos < Len(tokens) /\ tokens[a.pos + 1].kind = "OpenBrace"
            THEN Block(m, a, parse_directives(tokens, a.pos + 1))
            ELSE POk(a.pos, Directive(tokens[pos + 1].text, m.val, a.val, None))
        Matcher(m) == Arguments(m, ArgumentsLoop(tokens, m.pos, <<>>))
    IN Matcher(try_parse_matcher(tokens, pos + 1))

\* Parser::parse_directives: the loop
DirectivesLoop(tokens, pos0, directives) ==
    LET Parsed(d) ==
            IF ~d.ok THEN d
            ELSE DirectivesLoop(tokens, d.pos, Append(directives, d.val))
        At(pos) ==
            IF pos >= Len(tokens) THEN POk(pos, directives)
            ELSE IF tokens[pos + 1].kind = "CloseBrace" THEN POk(pos, directives)
            ELSE Parsed(parse_directive(tokens, pos))
    IN At(skip_newlines_and_comments(tokens, pos0))

parse_directives(tokens, pos) == DirectivesLoop(tokens, pos, <<>>)

\* self.expect_open_brace()?; self.parse_directives()?; self.expect_close_brace()?:
\* the tail shared by parse_global_options, parse_snippet, parse_named_route
\* and parse_site_block; val is the directive list
BracedDirectives(tokens, pos) ==
    LET Closed(ds, close) == IF ~close.ok THEN close ELSE POk(close.pos, ds.val)
        Body(ds) ==
            IF ~ds.ok THEN ds ELSE Closed(ds, expect_close_brace(tokens, ds.pos))
        Opened(open) ==
            IF ~open.ok THEN open ELSE Body(parse_directives(tokens, open.pos))
    IN Opened(expect_open_brace(tokens, pos))

\* Parser::is_global_options_block
is_global_options_block(tokens, pos) ==
    pos < Len(tokens) /\ tokens[pos + 1].kind = "OpenBrace"

\* Parser::parse_global_options
parse_global_options(tokens, pos) ==
    LET Made(r) == IF ~r.ok THEN r ELSE POk(r.pos, [directives |-> r.val])
    IN Made(BracedDirectives(tokens, pos))

\* Parser::parse_snippet
parse_snippet(tokens, pos) ==
    LET Made(text, r) ==
            IF ~r.ok THEN r
            ELSE POk(r.pos, Named(Slice(text, 1, Len(text) - 1), r.val))
    IN Made(tokens[pos + 1].text,
            BracedDirectives(tokens, skip_whitespace_tokens(tokens, pos + 1)))

\* Parser::parse_named_route
parse_named_route(tokens, pos) ==
    LET Made(text, r) ==
            IF ~r.ok THEN r
            ELSE POk(r.pos, Named(Slice(text, 2, Len(text) - 1), r.val))
    IN Made(tokens[pos + 1].text,
            BracedDirectives(tokens, skip_whitespace_tokens(tokens, pos + 1)))

\* the address loop leaving the trailing commas on the token's text
RECURSIVE AddressesLoop_commas_kept(_, _, _)
AddressesLoop_commas_kept(tokens, pos, addresses) ==
    LET Addr(token) ==
            IF token.kind = "OpenBrace" THEN [pos |-> pos, val |-> addresses]
            ELSE IF token.kind = "Newline" THEN [pos |-> pos + 1, val |-> addresses]
            ELSE IF token.kind = "Comment"
            THEN AddressesLoop_commas_kept(tokens, pos + 1, addresses)
            ELSE AddressesLoop_commas_kept(tokens, pos + 1,
                     Append(addresses, parse_address(token.text)))
    IN IF pos >= Len(tokens) THEN [pos |-> pos, val |-> addresses]
       ELSE Addr(tokens[pos + 1])

\* the address loop passing over a '}' as over a comment
RECURSIVE AddressesLoop_close_brace_skipped(_, _, _)
AddressesLoop_close_brace_skipped(tokens, pos, addresses) ==
    LET Addr(token) ==
            IF token.kind = "OpenBrace" THEN [pos |-> pos, val |-> addresses]
            ELSE IF token.kind = "Newline" THEN [pos |-> pos + 1, val |-> addresses]
            ELSE IF token.kind \in {"Comment", "CloseBrace"}
            THEN AddressesLoop_close_brace_skipped(tokens, pos + 1, addresses)
            ELSE AddressesLoop_close_brace_skipped(tokens, pos + 1,
                     Append(addresses,
                            parse_address(trim_end_matches(token.text, ","))))
    IN IF pos >= Len(tokens) THEN [pos |-> pos, val |-> addresses]
       ELSE Addr(tokens[pos + 1])

\* Parser::parse_site_block: the address loop; [pos, val]
RECURSIVE AddressesLoop(_, _, _)
AddressesLoop(tokens, pos, addresses) ==
    LET Addr(token) ==
            IF token.kind = "OpenBrace" THEN [pos |-> pos, val |-> addresses]
            ELSE IF token.kind = "Newline" THEN [pos |-> pos + 1, val |-> addresses]
            ELSE IF token.kind = "Comment"
            THEN AddressesLoop(tokens, pos + 1, addresses)
            ELSE AddressesLoop(tokens, pos + 1,
                     Append(addresses,
                            parse_address(trim_end_matches(token.text, ","))))
    IN IF pos >= Len(tokens) THEN [pos |-> pos, val |-> addresses]
       ELSE Addr(tokens[pos + 1])

\* Parser::parse_site_block
parse_site_block(tokens, pos0) ==
    LET Made(a, r) == IF ~r.ok THEN r ELSE POk(r.pos, SiteBlock(a.val, r.val))
        Block(a, pos) ==
            IF pos >= Len(tokens) \/ tokens[pos + 1].kind # "OpenBrace"
            THEN POk(pos, SiteBlock(a.val, <<>>))
            ELSE Made(a, BracedDirectives(tokens, pos))
        Addresses(a) == Block(a, skip_newlines_and_comments(tokens, a.pos))
    IN Addresses(AddressesLoop(tokens, pos0, <<>>))

\* the loop over the top-level blocks taking "()" and "&()" for headers
RECURSIVE BlocksLoop_empty_names(_, _, _)
BlocksLoop_empty_names(tokens, pos0, caddyfile) ==
    LET Snippet(r) ==
            IF ~r.ok THEN r
            ELSE BlocksLoop_empty_names(tokens, r.pos,
                            [caddyfile EXCEPT !.snippets = Append(@, r.val)])
        Route(r) ==
            IF ~r.ok THEN r
            ELSE BlocksLoop_empty_names(tokens, r.pos,
                            [caddyfile EXCEPT !.named_routes = Append(@, r.val)])
        Site(r) ==
            IF ~r.ok THEN r
            ELSE BlocksLoop_empty_names(tokens, r.pos,
                            [caddyfile EXCEPT !.sites = Append(@, r.val)])
        Block(pos, text) ==
            IF starts_with(text, <<"(">>) /\ ends_with(text, <<")">>) /\ Len(text) >= 2
            THEN Snippet(parse_snippet(tokens, pos))
            ELSE IF starts_with(text, <<"&", "(">>) /\ ends_with(text, <<")">>)
                    /\ Len(text) >= 3
            THEN Route(parse_named_route(tokens, pos))
            ELSE Site(parse_site_block(tokens, pos))
        At(pos) ==
            IF pos >= Len(tokens) THEN POk(pos, caddyfile)
            ELSE Block(pos, tokens[pos + 1].text)
    IN At(skip_newlines_and_comments(tokens, pos0))

\* Parser::parse: the loop over the top-level blocks
RECURSIVE BlocksLoop(_, _, _)
BlocksLoop(tokens, pos0, caddyfile) ==
    LET Snippet(r) ==
            IF ~r.ok THEN r
            ELSE BlocksLoop(tokens, r.pos,
                            [caddyfile EXCEPT !.snippets = Append(@, r.val)])
        Route(r) ==
            IF ~r.ok THEN r
            ELSE BlocksLoop(tokens, r.pos,
                            [caddyfile EXCEPT !.named_routes = Append(@, r.val)])
        Site(r) ==
            IF ~r.ok THEN r
            ELSE BlocksLoop(tokens, r.pos,
                            [caddyfile EXCEPT !.sites = Append(@, r.val)])
        Block(pos, text) ==
            IF starts_with(text, <<"(">>) /\ ends_with(text, <<")">>) /\ Len(text) > 2
            THEN Snippet(parse_snippet(tokens, pos))
            ELSE IF starts_with(text, <<"&", "(">>) /\ ends_with(text, <<")">>)
                    /\ Len(text) > 3
            THEN Route(parse_named_route(tokens, pos))
            ELSE Site(parse_site_block(tokens, pos))
        At(pos) ==
            IF pos >= Len(tokens) THEN POk(pos, caddyfile)
            ELSE Block(pos, tokens[pos + 1].text)
    IN At(skip_newlines_and_comments(tokens, pos0))

\* parser::parse: [ok, doc, err]
parse(tokens) ==
    LET Result(r) ==
            IF ~r.ok THEN [ok |-> FALSE, doc |-> <<>>, err |-> r.err]
            ELSE [ok |-> TRUE, doc |-> r.val, err |-> NoError]
        Global(g) ==
            IF ~g.ok THEN Result(g)
            ELSE Result(BlocksLoop(tokens, skip_newlines_and_comments(tokens, g.pos),
                                   Caddyfile(Some(g.val), <<>>, <<>>, <<>>)))
        Start(pos) ==
            IF is_global_options_block(tokens, pos)
            THEN Global(parse_global_options(tokens, pos))
            ELSE Result(BlocksLoop(tokens, pos, Caddyfile(None, <<>>, <<>>, <<>>)))
    IN Start(skip_newlines_and_comments(tokens, 0))

(***************************************************************************)
(* formatter.rs                                                            *)
(***************************************************************************)
\* "\t".repeat(indent)
RECURSIVE repeat_tab(_)
repeat_tab(indent) ==
    IF indent = 0 THEN <<>> ELSE <<"\t">> \o repeat_tab(indent - 1)

\* formatter::format_argument, Argument::Quoted: the escaping loop
RECURSIVE EscapeQuoted(_)
EscapeQuoted(s) ==
    IF s = <<>> THEN <<>>
    ELSE LET ch == Head(s) IN
         (IF ch = "\"" THEN <<"\\", "\"">>
          ELSE IF ch = "\\" THEN <<"\\", "\\">>
          ELSE IF ch = "\n" THEN <<"\\", "n">>
          ELSE IF ch = "\t" THEN <<"\\", "t">>
          ELSE IF ch = "\r" THEN <<"\\", "r">>
          ELSE <<ch>>) \o EscapeQuoted(Tail(s))

\* formatter::format_argument
format_argument(arg) ==
    IF arg.tag = "Unquoted" THEN arg.val
    ELSE IF arg.tag = "Quoted" THEN <<"\"">> \o EscapeQuoted(arg.val) \o <<"\"">>
    ELSE IF arg.tag = "Backtick" THEN <<BackTick>> \o arg.val \o <<BackTick>>
    ELSE <<"<", "<">> \o arg.marker \o <<"\n">> \o arg.val \o <<"\n">> \o arg.marker

\* formatter::format_directive: the matcher
format_matcher(matcher) ==
    IF matcher.tag = "All" THEN <<"*">>
    ELSE IF matcher.tag = "Path" THEN matcher.val
    ELSE <<"@">> \o matcher.val

\* formatter::format_directive: the argument loop
RECURSIVE format_arguments(_)
format_arguments(arguments) ==
    IF arguments = <<>> THEN <<>>
    ELSE <<" ">> \o format_argument(Head(arguments))
         \o format_arguments(Tail(arguments))

\* formatter::format_address
format_address(addr) ==
    (IF addr.scheme = Some("Http") THEN HttpPrefix
     ELSE IF addr.scheme = Some("Https") THEN HttpsPrefix ELSE <<>>)
    \o addr.host
    \o (IF IsSome(addr.port) THEN <<":">> \o to_string(Unwrap(addr.port)) ELSE <<>>)
    \o (IF IsSome(addr.path) THEN Unwrap(addr.path) ELSE <<>>)

RECURSIVE format_directive(_, _)
RECURSIVE format_directives(_, _)
RECURSIVE SpacingLoop(_, _, _, _)

\* formatter::format_directive
format_directive(directive, indent) ==
    repeat_tab(indent) \o directive.name
    \o (IF IsSome(directive.matcher)
        THEN <<" ">> \o format_matcher(Unwrap(directive.matcher)) ELSE <<>>)
    \o format_arguments(directive.arguments)
    \o (IF IsSome(directive.block)
        THEN <<" ", "{", "\n">>
             \o SpacingLoop(Unwrap(directive.block), indent + 1, 0, FALSE)
             \o repeat_tab(indent) \o <<"}", "\n">>
        ELSE <<"\n">>)

\* format_directives laying its list out with the blank-line spacing
format_directives_spaced(directives, indent) ==
    SpacingLoop(directives, indent, 0, FALSE)

\* formatter::format_directives
format_directives(directives, indent) ==
    IF directives = <<>> THEN <<>>
    ELSE format_directive(Head(directives), indent)
         \o format_directives(Tail(directives), indent)

\* the loop of format_directives_with_spacing emitting no empty line
RECURSIVE SpacingLoop_unspaced(_, _, _, _)
SpacingLoop_unspaced(directives, indent, i, prev_had_block) ==
    IF i >= Len(directives) THEN <<>>
    ELSE format_directive(directives[i + 1], indent)
         \o SpacingLoop_unspaced(directives, indent, i + 1, FALSE)

\* formatter::format_directives_with_spacing: the loop from index i on
SpacingLoop(directives, indent, i, prev_had_block) ==
    IF i >= Len(directives) THEN <<>>
    ELSE LET directive == directives[i + 1]
             has_block == IsSome(directive.block)
         IN (IF i > 0 /\ (has_block \/ prev_had_block) THEN <<"\n">> ELSE <<>>)
            \o format_directive(directive, indent)
            \o SpacingLoop(directives, indent, i + 1, has_block)

format_directives_with_spacing(directives, indent) ==
    SpacingLoop(directives, indent, 0, FALSE)

\* formatter::format_global_options
format_global_options(global) ==
    <<"{", "\n">> \o format_directives(global.directives, 1) \o <<"}", "\n">>

\* formatter::format_snippet
format_snippet(snippet) ==
    <<"(">> \o snippet.name \o <<")", " ", "{", "\n">>
    \o format_directives(snippet.directives, 1) \o <<"}", "\n">>

\* formatter::format_named_route
format_named_route(route) ==
    <<"&", "(">> \o route.name \o <<")", " ", "{", "\n">>
    \o format_directives(route.directives, 1) \o <<"}", "\n">>

\* formatter::format_site_block: the address loop
RECURSIVE format_addresses(_, _)
format_addresses(addresses, i) ==
    IF i >= Len(addresses) THEN <<>>
    ELSE (IF i > 0 THEN <<",", " ">> ELSE <<>>)
         \o format_address(addresses[i + 1])
         \o format_addresses(addresses, i + 1)

\* formatter::format_site_block
format_site_block(site) ==
    format_addresses(site.addresses, 0) \o <<" ", "{", "\n">>
    \o format_directives_with_spacing(site.directives, 1) \o <<"}", "\n">>

\* formatter::format: one of the three `for` loops; first_block is the flag
\* on entry, One the formatter of one element
RECURSIVE FormatBlocks(_, _, _)
FormatBlocks(blocks, first_block, kind) ==
    IF blocks = <<>> THEN <<>>
    ELSE (IF ~first_block THEN <<"\n">> ELSE <<>>)
         \o (IF kind = "snippet" THEN format_snippet(Head(blocks))
             ELSE IF kind = "route" THEN format_named_route(Head(blocks))
             ELSE format_site_block(Head(blocks)))
         \o FormatBlocks(Tail(blocks), FALSE, kind)

\* format without the final push of a newline
format_no_trailing_newline(caddyfile) ==
    LET g == IF IsSome(caddyfile.global_options)
             THEN format_global_options(Unwrap(caddyfile.global_options))
             ELSE <<>>
        first0 == ~IsSome(caddyfile.global_options)
        first1 == first0 /\ caddyfile.snippets = <<>>
        first2 == first1 /\ caddyfile.named_routes = <<>>
    IN g \o FormatBlocks(caddyfile.snippets, first0, "snippet")
         \o FormatBlocks(caddyfile.named_routes, first1, "route")
         \o FormatBlocks(caddyfile.sites, first2, "site")

\* format with the first_block flag not cleared by the global-options block
format_first_block_kept(caddyfile) ==
    LET g == IF IsSome(caddyfile.global_options)
             THEN format_global_options(Unwrap(caddyfile.global_options))
             ELSE <<>>
        first1 == caddyfile.snippets = <<>>
        first2 == first1 /\ caddyfile.named_routes = <<>>
        out == g \o FormatBlocks(caddyfile.snippets, TRUE, "snippet")
                 \o FormatBlocks(caddyfile.named_routes, first1, "route")
                 \o FormatBlocks(caddyfile.sites, first2, "site")
    IN IF ends_with(out, <<"\n">>) THEN out ELSE Append(out, "\n")

\* formatter::format
format(caddyfile) ==
    LET g == IF IsSome(caddyfile.global_options)
             THEN format_global_options(Unwrap(caddyfile.global_options))
             ELSE <<>>
        first0 == ~IsSome(caddyfile.global_options)
        first1 == first0 /\ caddyfile.snippets = <<>>
        first2 == first1 /\ caddyfile.named_routes = <<>>
        out == g \o FormatBlocks(caddyfile.snippets, first0, "snippet")
                 \o FormatBlocks(caddyfile.named_routes, first1, "route")
                 \o FormatBlocks(caddyfile.sites, first2, "site")
    IN IF ends_with(out, <<"\n">>) THEN out ELSE Append(out, "\n")

(***************************************************************************)
(* lib.rs                                                                  *)
(***************************************************************************)
\* parse_str: [ok, doc, err, stage], stage naming the Error variant
parse_str(input) ==
    LET Parsed(p) ==
            IF ~p.ok THEN [ok |-> FALSE, doc |-> <<>>, err |-> p.err, stage |-> "Parse"]
            ELSE [ok |-> TRUE, doc |-> p.doc, err |-> NoError, stage |-> "Ok"]
        Tokenized(t) ==
            IF ~t.ok THEN [ok |-> FALSE, doc |-> <<>>, err |-> t.err, stage |-> "Lex"]
            ELSE Parsed(parse(t.tokens))
    IN Tokenized(tokenize(input))

(***************************************************************************)
(* Inputs.  A run starts either from a Document handed to format (built    *)
(* by the caller, outside the parser) or from a source text handed to      *)
(* tokenize.                                                               *)
(***************************************************************************)
MaxDirs == 2
MaxRounds == 2

\* the sequences of at most n elements of S
SeqsUpTo(S, n) == UNION {[1..k -> S] : k \in 0..n}

RECURSIVE Concat(_)
Concat(ss) == IF ss = <<>> THEN <<>> ELSE Head(ss) \o Concat(Tail(ss))

Leaf(name) == Directive(name, None, <<>>, None)

\* the directives documents are built from
DirPool ==
    { Leaf(<<"x">>),
      Directive(<<"x">>, None, <<>>, Some(<<>>)),
      Directive(<<"x">>, Some(MatcherAll),
                <<Unquoted(<<"a">>), Quoted(<<"/", "q">>)>>, None),
      Directive(<<"x">>, Some(MatcherNamed(<<"m">>)),
                <<Quoted(<<"b", " ", "c">>), Quoted(<<>>)>>, Some(<<>>)),
      Directive(<<"x">>, Some(MatcherPath(<<"/", "p">>)),
                <<Quoted(<<"\"", "\\", "n", "#", "{", "}">>)>>, None),
      Directive(<<"x">>, None, <<Unquoted(<<"a">>)>>,
                Some(<<Leaf(<<"y">>),
                       Directive(<<"y">>, None, <<>>, Some(<<>>)),
                       Leaf(<<"z">>)>>)),
      Directive(<<"x">>, None, <<Quoted(<<"/", "q">>)>>, None),
      Directive(<<"x">>, None,
                <<Quoted(<<"\n", "\t", "\r">>), Backtick(<<"t", " ", "u">>)>>, None),
      Directive(<<"x">>, None, <<Heredoc(<<"M">>, <<"h", "i">>)>>, None),
      Directive(<<"x">>, None, <<Heredoc(<<"M">>, <<"h", "i">>)>>, Some(<<>>)) }

AddrA == parse_address(<<"a">>)
AddrB == parse_address(<<"h", "t", "t", "p", ":", "/", "/", "b", ":", "0", "8", "0">>)

\* the documents a directive list ds is placed in: as the only site, as the
\* global options, as a snippet, as a named route, in every section at once,
\* in a site without addresses, and one level down in a site
DocShapes(ds) ==
    { Caddyfile(None, <<>>, <<>>, <<SiteBlock(<<AddrA>>, ds)>>),
      Caddyfile(Some([directives |-> ds]), <<>>, <<>>, <<>>),
      Caddyfile(None, <<Named(<<"s">>, ds)>>, <<>>, <<>>),
      Caddyfile(None, <<>>, <<Named(<<"r">>, ds)>>, <<>>),
      Caddyfile(Some([directives |-> ds]), <<Named(<<"s">>, ds)>>,
                <<Named(<<"r">>, ds)>>,
                <<SiteBlock(<<AddrA, AddrB>>, ds), SiteBlock(<<AddrB>>, <<>>)>>),
      Caddyfile(None, <<>>, <<>>, <<SiteBlock(<<>>, ds)>>),
      Caddyfile(None, <<>>, <<>>,
                <<SiteBlock(<<AddrA>>, <<Directive(<<"n">>, None, <<>>, Some(ds))>>)>>) }

EmptyDoc == Caddyfile(None, <<>>, <<>>, <<>>)

\* a Document with two blocks of every kind, all different
TwoOfEach ==
    Caddyfile(Some([directives |-> <<Leaf(<<"g">>)>>]),
              <<Named(<<"s">>, <<Leaf(<<"x">>)>>), Named(<<"t">>, <<>>)>>,
              <<Named(<<"r">>, <<>>), Named(<<"q">>, <<Leaf(<<"y">>)>>)>>,
              <<SiteBlock(<<AddrB>>, <<Leaf(<<"z">>)>>), SiteBlock(<<AddrA>>, <<>>)>>)

DocInputs ==
    {EmptyDoc, TwoOfEach}
    \cup UNION {DocShapes(ds) : ds \in SeqsUpTo(DirPool, MaxDirs)}

(***************************************************************************)
(* Source texts.  The texts handed to tokenize are the prefixes of full    *)
(* texts: site blocks of up to MaxLines directive lines in the formatter's *)
(* layout, and samples.                                                    *)
(***************************************************************************)
MaxLines == 2

\* the directive lines of a site block: one tab, single spaces, a newline
LinePool ==
    { <<"\t", "x", "\n">>,
      <<"\t", "x", " ", "a", "\n">>,
      <<"\t", "x", " ", "@", "m", " ", "\"", "b", " ", "c", "\"", "\n">>,
      <<"\t", "x", " ", "\"", "/", "p", "\"", "\n">>,
      <<"\t", "x", " ", "/", "p", " ", "a", "\n">>,
      <<"\t", "x", " ", "*", " ", BackTick, "t", " ", "u", BackTick, "\n">>,
      <<"\t", "x", " ", "a", " ", "/", "p", " ", "@", "m", " ", "*", "\n">>,
      <<"\t", "x", " ", "@", "m", " ", "*", " ", "/", "p", " ", "@", "n", "\n">> }

\* "a {\n"
SiteOpen ==
    <<"a", " ", "{", "\n">>

\* "}\n"
SiteClose ==
    <<"}", "\n">>

SiteTexts ==
    {SiteOpen \o Concat(ls) \o SiteClose : ls \in SeqsUpTo(LinePool, MaxLines)}

\* "example.com {\n\tlog\n}\n"
SampleCrate ==
    <<"e", "x", "a", "m", "p", "l", "e", ".", "c", "o", "m", " ", "{", "\n",
      "\t", "l", "o", "g", "\n", "}", "\n">>

\* "{\n\tx\n}\n\n(s) {\n\tx\n}\n\n&(r) {\n\tx\n}\n\na, b:80 {\n\tx\n\n\ty {\n\t\tz\n\t}\n\n\tx\n}\n"
SampleSections ==
    <<"{", "\n", "\t", "x", "\n", "}", "\n", "\n", "(", "s", ")", " ", "{",
      "\n", "\t", "x", "\n", "}", "\n", "\n", "&", "(", "r", ")", " ", "{",
      "\n", "\t", "x", "\n", "}", "\n", "\n", "a", ",", " ", "b", ":", "8",
      "0", " ", "{", "\n", "\t", "x", "\n", "\n", "\t", "y", " ", "{", "\n",
      "\t", "\t", "z", "\n", "\t", "}", "\n", "\n", "\t", "x", "\n", "}", "\n">>

\* "a {\n\tx <<M\nhi\nM\n\n\ty\n}\n"
SampleHeredoc ==
    <<"a", " ", "{", "\n", "\t", "x", " ", "<", "<", "M", "\n", "h", "i",
      "\n", "M", "\n", "\n", "\t", "y", "\n", "}", "\n">>

\* ""a b" {\n}\n"
SampleQuotedAddress ==
    <<"\"", "a", " ", "b", "\"", " ", "{", "\n", "}", "\n">>

\* "a  {  # c\n x\n\n\n y { }\n}"
SampleLoose ==
    <<"a", " ", " ", "{", " ", " ", "#", " ", "c", "\n", " ", "x", "\n",
      "\n", "\n", " ", "y", " ", "{", " ", "}", "\n", "}">>

\* "a:080 {\n}\n"
SamplePort ==
    <<"a", ":", "0", "8", "0", " ", "{", "\n", "}", "\n">>

\* "(s) x {\n"
SampleNoBrace ==
    <<"(", "s", ")", " ", "x", " ", "{", "\n">>

\* "a {\n\t"" b\n}\n"
SampleEmptyName ==
    <<"a", " ", "{", "\n", "\t", "\"", "\"", " ", "b", "\n", "}", "\n">>

\* "a {\n}\n&(r)\n# c\n}\n"
SampleRouteNoBrace ==
    <<"a", " ", "{", "\n", "}", "\n", "&", "(", "r", ")", "\n", "#", " ", "c",
      "\n", "}", "\n">>

\* "# c\n{ # c\n\tg # c\n}\n(s) # c\n# c\n{\n\tx /p # c\n\ty a { # c\n\t}\n}\na, # c\n{\n}\n# c"
SampleComments ==
    <<"#", " ", "c", "\n", "{", " ", "#", " ", "c", "\n", "\t", "g", " ",
      "#", " ", "c", "\n", "}", "\n", "(", "s", ")", " ", "#", " ", "c",
      "\n", "#", " ", "c", "\n", "{", "\n", "\t", "x", " ", "/", "p", " ",
      "#", " ", "c", "\n", "\t", "y", " ", "a", " ", "{", " ", "#", " ",
      "c", "\n", "\t", "}", "\n", "}", "\n", "a", ",", " ", "#", " ", "c",
      "\n", "{", "\n", "}", "\n", "#", " ", "c">>

\* the texts in canonical layout, free of comments
CanonicalTexts == SiteTexts \cup {SampleCrate, SampleSections}

\* "a {\n\tx <<M\nhi\nM\n\ty\n}\n": a directive on the line after the
\* closing marker of a heredoc
SampleHeredocLines ==
    <<"a", " ", "{", "\n", "\t", "x", " ", "<", "<", "M", "\n", "h", "i",
      "\n", "M", "\n", "\t", "y", "\n", "}", "\n">>

FullTexts ==
    CanonicalTexts
    \cup {SampleHeredoc, SampleQuotedAddress, SampleLoose, SamplePort, SampleNoBrace,
          SampleEmptyName, SampleRouteNoBrace, SampleComments,
          SampleHeredocLines}

\* top-level entries: snippets, named routes, sites, a bare block, and
\* headers with an empty name
MaxTop == 2

EntryPool ==
    { <<"(", "s", ")", " ", "{", "\n", "}", "\n">>,
      <<"(", "t", ")", " ", "{", "\n", "\t", "x", "\n", "}", "\n">>,
      <<"&", "(", "r", ")", " ", "{", "\n", "}", "\n">>,
      <<"&", "(", "q", ")", " ", "{", "\n", "}", "\n">>,
      <<"a", " ", "{", "\n", "}", "\n">>,
      <<"{", "\n", "}", "\n">>,
      <<"(", ")", " ", "{", "\n", "}", "\n">>,
      <<"&", "(", ")", " ", "{", "\n", "}", "\n">> }

\* the entries one after the other, after a comment line or not
TopTexts ==
    {lead \o Concat(es) :
        lead \in {<<>>, <<"#", "c", "\n", "\n">>}, es \in SeqsUpTo(EntryPool, MaxTop)}

\* the first line of a site block: up to MaxTop address words separated
\* by single spaces, then what follows them
AddressWords ==
    { <<"a">>,
      <<"b", ",">>,
      <<"c", ":", "8", "0", ",", ",">>,
      <<"}">>,
      <<"\"", "d", " ", "e", "\"">> }

\* nothing; a block; a newline; a block on the next line; a comment and a
\* block on the next line; another site on the next line; a comment
AddressTails ==
    { <<>>,
      <<" ", "{", "\n", "\t", "l", "o", "g", "\n", "}", "\n">>,
      <<"\n">>,
      <<"\n", "{", "\n", "\t", "x", "\n", "}", "\n">>,
      <<" ", "#", " ", "c", "\n", "{", "\n", "}", "\n">>,
      <<"\n", "b", " ", "{", "\n", "}", "\n">>,
      <<" ", "#", " ", "c">> }

RECURSIVE JoinedBySpace(_)
JoinedBySpace(ws) ==
    IF ws = <<>> THEN <<>>
    ELSE IF Len(ws) = 1 THEN ws[1]
    ELSE ws[1] \o <<" ">> \o JoinedBySpace(Tail(ws))

AddressLineTexts ==
    {JoinedBySpace(ws) \o tail :
        ws \in SeqsUpTo(AddressWords, MaxTop) \ {<<>>}, tail \in AddressTails}

\* a '}' outside every block: alone, twice, before a block, each after
\* nothing or after a complete top-level entry
StrayCloses ==
    { <<"}">>,
      <<"}", "\n">>,
      <<"}", " ", "}", "\n">>,
      <<"}", "\n", "}", "\n", "a", "\n">>,
      <<"}", " ", "{", "\n", "\t", "l", "o", "g", "\n", "}", "\n">> }

StrayTexts == {e \o c : e \in EntryPool \cup {<<>>}, c \in StrayCloses}

TextInputs ==
    UNION {{SubSeq(t, 1, n) : n \in 0..Len(t)} : t \in FullTexts}
    \cup TopTexts \cup AddressLineTexts \cup StrayTexts

(***************************************************************************)
(* Texts for the lexer.  ErrorTexts: up to MaxPre leading pieces, then a   *)
(* quoted string, a backtick string or a heredoc, closed or not.           *)
(* HeredocTexts: a heredoc opener "<<M", the rest of its line, and up to   *)
(* MaxBody further lines.                                                  *)
(***************************************************************************)
MaxPre == 3
MaxBody == 3

\* a word, a space, a newline, a backslash-newline, a quoted string, CR LF, a tab
PrePieces ==
    { <<"a">>,
      <<" ">>,
      <<"\n">>,
      <<"\\", "\n">>,
      <<"\"", "b", "\"">>,
      <<"\r", "\n">>,
      <<"\t">> }

\* strings and heredocs, unterminated and terminated
Constructs ==
    { <<"\"", "u">>,
      <<"\"", "u", "\\", "\"">>,
      <<BackTick, "u">>,
      <<"<", "<">>,
      <<"<", "<", "\n">>,
      <<"<", "<", "M", "\n", "h", "i">>,
      <<"<", "<", "M", "\n", "h", "i", "\n", "N", "\n">>,
      <<"\"", "u", "\"">>,
      <<BackTick, "u", BackTick>>,
      <<"<", "<", "M", "\n", "h", "i", "\n", "M", "\n">> }

ErrorTexts ==
    {Concat(pre) \o c : pre \in SeqsUpTo(PrePieces, MaxPre), c \in Constructs}

\* what precedes the opener on its line
OpenerLeads ==
    { <<>>,
      <<"x", " ">> }

HeredocOpener == <<"<", "<", "M">>

\* what follows the marker on the line of the opener
OpenerTails ==
    { <<"\n">>,
      <<"\r", "\n">>,
      <<" ", "x", "\n">>,
      <<" ", "M", "\n">>,
      <<" ", "M">> }

\* the lines after the line of the opener
BodyLines ==
    { <<"h", "i", "\n">>,
      <<"\n">>,
      <<" ", "M", " ", "\n">>,
      <<"M", "\n">>,
      <<"M">>,
      <<"M", "\r", "\n">> }

HeredocTexts ==
    {lead \o HeredocOpener \o tail \o Concat(body) :
        lead \in OpenerLeads, tail \in OpenerTails,
        body \in SeqsUpTo(BodyLines, MaxBody)}

\* words, white space, newlines and line continuations (LF and CRLF)
JoinPieces ==
    { <<"a">>,
      <<"b">>,
      <<" ">>,
      <<"\n">>,
      <<"\\", "\n">>,
      <<"\\", "\r", "\n">> }

JoinTexts == {Concat(pre) : pre \in SeqsUpTo(JoinPieces, MaxPre)}

\* what precedes "{$", and what follows it
EnvLeads ==
    { <<>>,
      <<"a", " ">>,
      <<"a">>,
      <<"x", "\n", "\t">> }

EnvOpener == <<"{", "$">>

EnvTails ==
    { <<>>,
      <<"A">>,
      <<"A", " ", "x">>,
      <<"A", ":", "b">>,
      <<":">>,
      <<"A", "\n", "}">>,
      <<"A", ":", "b", "\n", "c", "}">>,
      <<"A", "}">>,
      <<"A", ":", "b", "}">>,
      <<"}">> }

EnvTexts == {lead \o EnvOpener \o tail : lead \in EnvLeads, tail \in EnvTails}

\* words, blanks and the three line terminators: LF, CRLF, a lone CR
SpanPieces ==
    { <<"a">>,
      <<"b", "c">>,
      <<" ">>,
      <<"\n">>,
      <<"\r", "\n">>,
      <<"\r">> }

SpanTexts == {Concat(pre) : pre \in SeqsUpTo(SpanPieces, MaxPre)}

\* what follows the first byte of a word: braces, an env-var reference, an
\* unclosed "{$", a letter
BracePieces ==
    { <<"{">>,
      <<"}">>,
      <<"{", "$", "B", "}">>,
      <<"{", "$">>,
      <<"x">> }

\* a word that begins with a letter, alone or followed by a second word
BraceTexts ==
    {<<"a">> \o Concat(ps) \o tail :
        ps \in SeqsUpTo(BracePieces, MaxPre), tail \in {<<>>, <<" ", "b">>}}

\* bytes that no arm of the scanning loop takes, so that read_word gets
\* them: a letter, '<' alone, a backslash, '$', ',', ')', '@', '*', '/'
WordStarts == {"a", "<", "\\", "$", ",", ")", "@", "*", "/"}

\* what follows the first byte of such a word
WordRests ==
    { <<>>, <<" ">>, <<"\t">>, <<"\r">>, <<"{">>, <<"}">>, <<"\\">>, <<"<">>,
      <<"#">>, <<"\"">>, <<BackTick>>, <<"{", "$">> }

\* a word start after nothing, a space or a '}', then up to two rests
WordStartTexts ==
    {lead \o <<c>> \o r1 \o r2 :
        lead \in {<<>>, <<" ">>, <<"}">>}, c \in WordStarts,
        r1 \in WordRests, r2 \in WordRests}

(***************************************************************************)
(* Token sequences handed to parse directly, those no run of tokenize      *)
(* returns included: up to MaxChunks chunks of one or two tokens.          *)
(***************************************************************************)
MaxChunks == 4

WordToken(text) == Token("Word", text, Span(1, 1))

\* a word and '{'; '}'; a newline; a snippet header; a word and a comment;
\* '{'; a '}' token with the text of a route header; a word without text
ChunkPool ==
    { <<WordToken(<<"a">>), Token("OpenBrace", <<"{">>, Span(1, 1))>>,
      <<Token("CloseBrace", <<"}">>, Span(1, 1))>>,
      <<Token("Newline", <<"\n">>, Span(1, 1))>>,
      <<WordToken(<<"(", "s", ")">>)>>,
      <<WordToken(<<"x">>), Token("Comment", <<"#", "c">>, Span(1, 1))>>,
      <<Token("OpenBrace", <<"{">>, Span(1, 1))>>,
      <<Token("CloseBrace", <<"&", "(", "r", ")">>, Span(1, 1))>>,
      <<WordToken(<<>>)>> }

TokenInputs == {Concat(cs) : cs \in SeqsUpTo(ChunkPool, MaxChunks)}

LexInputs ==
    ErrorTexts \cup HeredocTexts \cup JoinTexts \cup EnvTexts \cup SpanTexts
    \cup BraceTexts \cup WordStartTexts

\* the address texts: every scheme prefix, host, port suffix and path of
\* the pools, concatenated
SchemePool ==
    { <<>>, HttpPrefix, HttpsPrefix, HttpPrefix \o HttpsPrefix,
      <<"h", "t", "t", "p", ":">>, <<"f", "t", "p", ":", "/", "/">> }

HostPool == { <<>>, <<"a">>, <<"a", ".", "b">>, <<"[", ":", ":", "1", "]">>, <<"a", ":", "7">> }

PortPool ==
    { <<>>, <<":">>, <<":", "0">>, <<":", "8", "0">>, <<":", "0", "8", "0">>,
      <<":", "6", "5", "5", "3", "5">>, <<":", "6", "5", "5", "3", "6">>,
      <<":", "0", "0", "6", "5", "5", "3", "5">>, <<":", "9", "9", "9", "9", "9", "9">>,
      <<":", "8", "x">>, <<":", "+", "8">>, <<":", "-", "8">>, <<":", "+">> }

PathPool == { <<>>, <<"/">>, <<"/", "p">>, <<"/", "p", ":", "9">>, <<"/", "a", "/", "b">> }

AddressInputs ==
    { s \o h \o p \o q : s \in SchemePool, h \in HostPool, p \in PortPool, q \in PathPool }

(***************************************************************************)
(* The state machine: text -> tokenize -> tokens -> parse -> document ->   *)
(* format -> text, repeated.                                               *)
(***************************************************************************)
VARIABLES
    origin,   \* "doc": the run began with a built Document; "text": with a source text
    built,    \* the Document the run began with (origin = "doc")
    src,      \* the source text the run began with (origin = "text")
    pc,       \* what the run holds: "text", "tokens", "doc", "lexerr", "parseerr",
              \* "addr" (an address text), "address" (an Address)
    text,     \* the text to tokenize
    tokens,   \* the tokens of the last successful tokenize
    doc,      \* the Document to format
    err,      \* the LexError or ParseError of the failed call
    address,  \* the Address parse_address returned last
    outs      \* the texts format has returned so far, in order

vars == <<origin, built, src, pc, text, tokens, doc, err, address, outs>>

InitDoc(D) ==
    /\ origin = "doc"
    /\ built \in D
    /\ doc = built
    /\ pc = "doc"
    /\ src = <<>>
    /\ text = <<>>
    /\ tokens = <<>>
    /\ err = NoError
    /\ address = None
    /\ outs = <<>>

InitText(T) ==
    /\ origin = "text"
    /\ src \in T
    /\ text = src
    /\ pc = "text"
    /\ built = EmptyDoc
    /\ doc = EmptyDoc
    /\ tokens = <<>>
    /\ err = NoError
    /\ address = None
    /\ outs = <<>>

\* lexer::tokenize on the current text
Tokenize ==
    /\ pc = "text"
    /\ LET Returned(r) ==
               /\ pc' = IF r.ok THEN "tokens" ELSE "lexerr"
               /\ tokens' = r.tokens
               /\ err' = r.err
       IN Returned(tokenize(text))
    /\ UNCHANGED <<origin, built, src, text, doc, outs, address>>

\* parser::parse on the current tokens
Parse ==
    /\ pc = "tokens"
    /\ LET Returned(r) ==
               /\ pc' = IF r.ok THEN "doc" ELSE "parseerr"
               /\ doc' = IF r.ok THEN r.doc ELSE doc
               /\ err' = r.err
       IN Returned(parse(tokens))
    /\ UNCHANGED <<origin, built, src, text, tokens, outs, address>>

\* parse_str on the current text; tokens keeps what its tokenize call returned
ParseStr ==
    /\ pc = "text"
    /\ LET Returned(r) ==
               /\ pc' = IF r.ok THEN "doc"
                        ELSE IF r.stage = "Lex" THEN "lexerr" ELSE "parseerr"
               /\ doc' = IF r.ok THEN r.doc ELSE doc
               /\ err' = r.err
       IN Returned(parse_str(text))
    /\ tokens' = tokenize(text).tokens
    /\ UNCHANGED <<origin, built, src, text, outs, address>>

\* formatter::format on the current Document
Format ==
    /\ pc = "doc"
    /\ Len(outs) < MaxRounds
    /\ text' = format(doc)
    /\ outs' = Append(outs, text')
    /\ pc' = "text"
    /\ UNCHANGED <<origin, built, src, tokens, doc, err, address>>

Next == Tokenize \/ Parse \/ ParseStr \/ Format

InitAddress(A) ==
    /\ origin = "addr"
    /\ src \in A
    /\ text = src
    /\ pc = "addr"
    /\ built = EmptyDoc
    /\ doc = EmptyDoc
    /\ tokens = <<>>
    /\ err = NoError
    /\ address = None
    /\ outs = <<>>

\* ast::parse_address on the current address text
ParseAddress ==
    /\ pc = "addr"
    /\ address' = parse_address(text)
    /\ pc' = "address"
    /\ UNCHANGED <<origin, built, src, text, tokens, doc, err, outs>>

\* formatter::format_address on the current Address
FormatAddress ==
    /\ pc = "address"
    /\ Len(outs) < MaxRounds
    /\ text' = format_address(address)
    /\ outs' = Append(outs, text')
    /\ pc' = "addr"
    /\ UNCHANGED <<origin, built, src, tokens, doc, err, address>>

NextAddress == ParseAddress \/ FormatAddress

\* Parser::new: a token slice handed to parse, the cursor at 0
InitTokens(K) ==
    /\ origin = "tokens"
    /\ src = <<>>
    /\ text = <<>>
    /\ pc = "tokens"
    /\ built = EmptyDoc
    /\ doc = EmptyDoc
    /\ tokens \in K
    /\ err = NoError
    /\ address = None
    /\ outs = <<>>

NextTokens == Parse

\* runs that begin with a built Document
SpecDoc == InitDoc(DocInputs) /\ [][Next]_vars

\* runs of parse on a token sequence
SpecTokens == InitTokens(TokenInputs) /\ [][NextTokens]_vars

\* runs that begin with a source text
SpecText == InitText(TextInputs) /\ [][Next]_vars

\* runs that begin with a text for the lexer
SpecLex == InitText(LexInputs) /\ [][Next]_vars

\* runs that begin with an address text
SpecAddress == InitAddress(AddressInputs) /\ [][NextAddress]_vars

(***************************************************************************)
(* Documents built only from simple parts.                                *)
(***************************************************************************)
\* the printable ASCII bytes, 0x20 to 0x7E
Printable ==
    {" ", "!", "\"", "#", "$", "%", "&", "'", "(", ")", "*", "+", ",", "-",
      ".", "/", "0", "1", "2", "3", "4", "5", "6", "7", "8", "9", ":", ";",
      "<", "=", ">", "?", "@", "A", "B", "C", "D", "E", "F", "G", "H", "I",
      "J", "K", "L", "M", "N", "O", "P", "Q", "R", "S", "T", "U", "V", "W",
      "X", "Y", "Z", "[", "\\", "]", "^", "_", BackTick, "a", "b", "c", "d",
      "e", "f", "g", "h", "i", "j", "k", "l", "m", "n", "o", "p", "q", "r",
      "s", "t", "u", "v", "w", "x", "y", "z", "{", "|", "}", "~" }

\* the bytes of a plain host name
HostBytes ==
    {"a", "b", "c", "d", "e", "f", "g", "h", "i", "j", "k", "l", "m", "n",
      "o", "p", "q", "r", "s", "t", "u", "v", "w", "x", "y", "z", "0", "1",
      "2", "3", "4", "5", "6", "7", "8", "9", ".", "-" }

\* a non-empty word without white space, braces, quotes, backticks, '#',
\* backslashes or a leading "<<"
IsWord(w) ==
    /\ w # <<>>
    /\ \A i \in 1..Len(w) :
           w[i] \in Printable \ {" ", "{", "}", "\"", BackTick, "#", "\\"}
    /\ ~starts_with(w, <<"<", "<">>)

\* w does not begin with '*', '@' or '/'
NoMatcherLead(w) == w = <<>> \/ w[1] \notin {"*", "@", "/"}

IsSimpleMatcher(m) ==
    \/ m.tag = "All"
    \/ m.tag = "Named" /\ IsWord(m.val)
    \/ m.tag = "Path" /\ IsWord(m.val) /\ m.val[1] = "/"

IsSimpleArgument(a) ==
    \/ a.tag = "Unquoted" /\ IsWord(a.val)
    \/ a.tag = "Quoted" /\ \A i \in 1..Len(a.val) : a.val[i] \in Printable

RECURSIVE IsSimpleDirective(_)
IsSimpleDirective(d) ==
    /\ IsWord(d.name) /\ NoMatcherLead(d.name)
    /\ IsSome(d.matcher) => IsSimpleMatcher(Unwrap(d.matcher))
    /\ \A i \in 1..Len(d.arguments) : IsSimpleArgument(d.arguments[i])
    /\ d.arguments # <<>> => NoMatcherLead(d.arguments[1].val)
    /\ IsSome(d.block) =>
           \A i \in 1..Len(Unwrap(d.block)) : IsSimpleDirective(Unwrap(d.block)[i])

IsSimpleDirectives(ds) == \A i \in 1..Len(ds) : IsSimpleDirective(ds[i])

\* what parse_address returns on a plain host with optional scheme and
\* numeric port
IsSimpleAddress(a) ==
    /\ a.host # <<>> /\ \A i \in 1..Len(a.host) : a.host[i] \in HostBytes
    /\ a.scheme \in {None, Some("Http"), Some("Https")}
    /\ a.port = None \/ Unwrap(a.port) \in 0..U16Max
    /\ a.path = None

IsSimpleDoc(d) ==
    /\ IsSome(d.global_options) => IsSimpleDirectives(Unwrap(d.global_options).directives)
    /\ \A i \in 1..Len(d.snippets) :
           IsWord(d.snippets[i].name) /\ IsSimpleDirectives(d.snippets[i].directives)
    /\ \A i \in 1..Len(d.named_routes) :
           /\ IsWord(d.named_routes[i].name)
           /\ IsSimpleDirectives(d.named_routes[i].directives)
    /\ \A i \in 1..Len(d.sites) :
           /\ d.sites[i].addresses # <<>>
           /\ \A k \in 1..Len(d.sites[i].addresses) :
                  IsSimpleAddress(d.sites[i].addresses[k])
           /\ IsSimpleDirectives(d.sites[i].directives)

\* the run holds an error of tokenize or of parse
Failed == pc \in {"lexerr", "parseerr"}

\* the run began with a Document that has been formatted once, and that
\* text tokenized and parsed
Reparsed == origin = "doc" /\ Len(outs) = 1 /\ pc = "doc"

\* the Document the run began with is one site with addresses holding one
\* directive
OneDirective(d) ==
    /\ d.global_options = None /\ d.snippets = <<>> /\ d.named_routes = <<>>
    /\ Len(d.sites) = 1
    /\ d.sites[1].addresses # <<>>
    /\ Len(d.sites[1].directives) = 1

TheDirective(d) == d.sites[1].directives[1]

(***************************************************************************)
(* C1.  For any Document d, tokenize(format(d)) succeeds, parse of those   *)
(* tokens succeeds, and format(parse(tokenize(format(d)))) = format(d):    *)
(* in a run that began with a Document, neither tokenize nor parse fails   *)
(* on the first formatted text, and the second formatted text equals the   *)
(* first.                                                                  *)
(***************************************************************************)
C1_FormatIdempotent ==
    origin = "doc" =>
        /\ Len(outs) = 1 => ~Failed
        /\ Len(outs) >= 2 => outs[2] = outs[1]

(***************************************************************************)
(* C4.  For any Document d, parse_str(format(d)) succeeds and has as many  *)
(* sites, snippets and named routes as d, and global options exactly when  *)
(* d has them.                                                             *)
(***************************************************************************)
C4_CountsPreserved ==
    origin = "doc" /\ Len(outs) = 1 =>
        /\ ~Failed
        /\ pc = "doc" =>
               /\ Len(doc.sites) = Len(built.sites)
               /\ Len(doc.snippets) = Len(built.snippets)
               /\ Len(doc.named_routes) = Len(built.named_routes)
               /\ IsSome(doc.global_options) = IsSome(built.global_options)

(***************************************************************************)
(* C5.  For a Document d built only from simple parts,                     *)
(* parse_str(format(d)) succeeds and returns a Document equal to d.        *)
(***************************************************************************)
C5_SimpleRoundTrip ==
    origin = "doc" /\ IsSimpleDoc(built) /\ Len(outs) = 1 =>
        /\ ~Failed
        /\ pc = "doc" => doc = built

\* a simple Document with global options, a snippet, a named route and two
\* sites, whose directive lists hold a matcher, quoted arguments that need
\* escaping and a nested block, has been formatted and parsed back
C5_Witness ==
    /\ Reparsed /\ IsSimpleDoc(built) /\ doc = built
    /\ IsSome(built.global_options) /\ built.snippets # <<>>
    /\ built.named_routes # <<>> /\ Len(built.sites) = 2
    /\ Len(built.sites[1].directives) = MaxDirs
    /\ \E i \in 1..MaxDirs :
           /\ IsSome(built.sites[1].directives[i].matcher)
           /\ \E k \in 1..Len(built.sites[1].directives[i].arguments) :
                  /\ built.sites[1].directives[i].arguments[k].tag = "Quoted"
                  /\ "\\" \in {built.sites[1].directives[i].arguments[k].val[n] :
                                 n \in 1..Len(built.sites[1].directives[i].arguments[k].val)}
    /\ \E i \in 1..MaxDirs :
           /\ IsSome(built.sites[1].directives[i].block)
           /\ Unwrap(built.sites[1].directives[i].block) # <<>>

(***************************************************************************)
(* C9.  Formatting a directive that holds Argument::Quoted(v) and parsing  *)
(* the text back yields, at the same place of the directive, Quoted(v):    *)
(* for a Document of one site holding one directive, every Quoted          *)
(* argument of that directive is found again at its index.                 *)
(***************************************************************************)
C9_QuotedRoundTrip ==
    Reparsed /\ OneDirective(built) =>
        \A i \in 1..Len(TheDirective(built).arguments) :
            TheDirective(built).arguments[i].tag = "Quoted" =>
                /\ OneDirective(doc)
                /\ i <= Len(TheDirective(doc).arguments)
                /\ TheDirective(doc).arguments[i] = TheDirective(built).arguments[i]

\* the line of a directive without its newline: tabs, name, matcher, arguments
BareLine(d, indent) ==
    repeat_tab(indent) \o d.name
    \o (IF IsSome(d.matcher) THEN <<" ">> \o format_matcher(Unwrap(d.matcher))
        ELSE <<>>)
    \o format_arguments(d.arguments)

(***************************************************************************)
(* C10.  A directive with block = None is rendered as a bare line and one  *)
(* with block = Some(empty list) as the same line followed by " {", a      *)
(* newline and the indented "}" line; the renderings differ, and parsing   *)
(* them back yields block = None and block = Some(empty list): for a       *)
(* Document of one site holding one such directive, the rendering has      *)
(* that form, tokenize and parse accept it, and the directive parsed back  *)
(* has the same block.                                                     *)
(***************************************************************************)
C10_EmptyBlockDistinct ==
    origin = "doc" /\ OneDirective(built) /\ Len(outs) = 1
    /\ TheDirective(built).block \in {None, Some(<<>>)} =>
        /\ format_directive([TheDirective(built) EXCEPT !.block = None], 1)
               = BareLine(TheDirective(built), 1) \o <<"\n">>
        /\ format_directive([TheDirective(built) EXCEPT !.block = Some(<<>>)], 1)
               = BareLine(TheDirective(built), 1) \o <<" ", "{", "\n", "\t", "}", "\n">>
        /\ ~Failed
        /\ pc = "doc" =>
               /\ OneDirective(doc)
               /\ TheDirective(doc).block = TheDirective(built).block


(***************************************************************************)
(* C2.  For a source text s that parse_str accepts, t = format(parse_str(s))*)
(* is accepted by tokenize and by parse, and format(parse_str(t)) = t: in  *)
(* a run that began with a text, neither tokenize nor parse fails on the   *)
(* first formatted text, and the second formatted text equals the first.   *)
(***************************************************************************)
C2_ReparseFixedPoint ==
    origin = "text" =>
        /\ Len(outs) = 1 => ~Failed
        /\ Len(outs) >= 2 => outs[2] = outs[1]

(***************************************************************************)
(* C3.  Parsing and then formatting a comment-free text in canonical       *)
(* layout returns it byte for byte: a run that began with such a text      *)
(* fails neither in tokenize nor in parse, and its first formatted text    *)
(* is the text it began with.                                              *)
(***************************************************************************)
C3_CanonicalFixedPoint ==
    origin = "text" /\ src \in CanonicalTexts =>
        /\ Len(outs) = 0 => ~Failed
        /\ Len(outs) >= 1 => outs[1] = src

(***************************************************************************)
(* The blocks a token sequence leaves open, counted without the parser:    *)
(* the braces are matched from left to right.  At the top level every '{'  *)
(* opens a block, unless it follows a snippet or named-route header with   *)
(* other tokens in between (parse gives up before it); inside a block a    *)
(* '{' opens a block unless it stands where a directive name is expected,  *)
(* and a '}' closes the innermost block.                                   *)
(***************************************************************************)
IsHeader(t) ==
    \/ starts_with(t, <<"(">>) /\ ends_with(t, <<")">>) /\ Len(t) > 2
    \/ starts_with(t, <<"&", "(">>) /\ ends_with(t, <<")">>) /\ Len(t) > 3

\* mode: "blockstart" before a top-level block, "header" after a snippet or
\* route header, "addr" among the addresses of a site, "start" where a
\* directive begins, "line" inside a directive
RECURSIVE OpenBlocksFrom(_, _, _, _)
OpenBlocksFrom(toks, i, depth, mode) ==
    IF i > Len(toks) THEN depth
    ELSE IF toks[i].kind = "Comment" THEN OpenBlocksFrom(toks, i + 1, depth, mode)
    ELSE IF toks[i].kind = "Newline"
    THEN OpenBlocksFrom(toks, i + 1, depth,
                        CASE mode = "addr" -> "blockstart"
                          [] mode = "line" -> "start"
                          [] OTHER -> mode)
    ELSE IF mode = "header"
    THEN IF toks[i].kind = "OpenBrace" THEN OpenBlocksFrom(toks, i + 1, 1, "start")
         ELSE 0
    ELSE IF depth = 0
    THEN IF toks[i].kind = "OpenBrace" THEN OpenBlocksFrom(toks, i + 1, 1, "start")
         ELSE IF mode = "blockstart" /\ IsHeader(toks[i].text)
         THEN OpenBlocksFrom(toks, i + 1, 0, "header")
         ELSE OpenBlocksFrom(toks, i + 1, 0, "addr")
    ELSE IF toks[i].kind = "CloseBrace"
    THEN OpenBlocksFrom(toks, i + 1, depth - 1,
                        IF depth = 1 THEN "blockstart" ELSE "start")
    ELSE IF toks[i].kind = "OpenBrace" /\ mode = "line"
    THEN OpenBlocksFrom(toks, i + 1, depth + 1, "start")
    ELSE OpenBlocksFrom(toks, i + 1, depth, "line")

OpenBlocks(toks) == OpenBlocksFrom(toks, 1, 0, "blockstart")

\* parse has returned on the current tokens
ParseReturned == pc \in {"doc", "parseerr"} /\ (origin = "doc" => Len(outs) >= 1)

(***************************************************************************)
(* C6.  Whenever a block opened by '{' is not closed by a matching '}',    *)
(* parse fails with ExpectedCloseBrace; the error's found is the text of   *)
(* the token met instead of '}' and its span that token's span, and when   *)
(* the input ended found is None and the span is the last token's span.    *)
(***************************************************************************)
C6_ExpectedCloseBrace ==
    ParseReturned =>
        /\ OpenBlocks(tokens) > 0 =>
               pc = "parseerr" /\ err.kind = "ExpectedCloseBrace"
        /\ pc = "parseerr" /\ err.kind = "ExpectedCloseBrace" =>
               IF err.at >= Len(tokens)
               THEN /\ err.found = None
                    /\ tokens # <<>>
                    /\ err.span = tokens[Len(tokens)].span
               ELSE /\ err.found = Some(tokens[err.at + 1].text)
                    /\ err.span = tokens[err.at + 1].span

\* a text that ends inside a nested block, two blocks open, on a later line
\* than the first: parse has failed with ExpectedCloseBrace
C6_Witness ==
    /\ ParseReturned /\ origin = "text" /\ Len(outs) = 0
    /\ OpenBlocks(tokens) = 2
    /\ pc = "parseerr" /\ err.kind = "ExpectedCloseBrace" /\ err.found = None
    /\ err.span.line > 2

(***************************************************************************)
(* Lines and columns of a text, counted without the lexer: the line of the *)
(* byte at 0-based offset p is one more than the number of newlines before *)
(* it, its column one more than the number of bytes since the last of      *)
(* them.                                                                   *)
(***************************************************************************)
LineOf(s, p) == 1 + Cardinality({i \in 1..p : s[i] = "\n"})

RECURSIVE ColumnOf(_, _)
ColumnOf(s, p) ==
    IF p = 0 \/ s[p] = "\n" THEN 1 ELSE 1 + ColumnOf(s, p - 1)

\* tokenize has returned on the text the run began with
LexReturned == origin = "text" /\ Len(outs) = 0 /\ pc # "text"

\* the marker text after "<<" at offset p: up to the next white space
MarkerAt(s, p) ==
    SubSeq(s, p + 3,
           CHOOSE e \in (p + 2)..Len(s) :
               /\ \A i \in (p + 3)..e : s[i] \notin WhiteSpace
               /\ e = Len(s) \/ s[e + 1] \in WhiteSpace)

(***************************************************************************)
(* C7.  Whenever tokenize fails, the error's kind is UnterminatedString    *)
(* for an unclosed '"', UnterminatedBacktick for an unclosed backtick,     *)
(* EmptyHeredocMarker for "<<" with no marker text and                     *)
(* UnterminatedHeredoc{marker} for a heredoc that is never closed, and its *)
(* span is the 1-based line and column in the input of the first byte of   *)
(* that construct.                                                         *)
(***************************************************************************)
C7_LexErrorSpan ==
    LexReturned /\ pc = "lexerr" =>
        /\ err.span = Span(LineOf(src, err.at), ColumnOf(src, err.at))
        /\ err.at < Len(src)
        /\ CASE err.kind = "UnterminatedString" -> src[err.at + 1] = "\""
             [] err.kind = "UnterminatedBacktick" -> src[err.at + 1] = BackTick
             [] err.kind = "EmptyHeredocMarker" ->
                    /\ Slice(src, err.at, err.at + 2) = <<"<", "<">>
                    /\ MarkerAt(src, err.at) = <<>>
             [] err.kind = "UnterminatedHeredoc" ->
                    /\ Slice(src, err.at, err.at + 2) = <<"<", "<">>
                    /\ err.marker = MarkerAt(src, err.at)
                    /\ err.marker # <<>>
             [] OTHER -> FALSE

(***************************************************************************)
(* The heredoc a text of HeredocTexts holds, read off the text without the *)
(* lexer.  The opener is the first "<<"; its line ends at the first        *)
(* newline after it; the lines after that one are the pieces between       *)
(* newlines; the closing line is the first of them whose trimmed text is   *)
(* the marker.                                                             *)
(***************************************************************************)
\* the 0-based offset of the first "<<" of s
OpenerAt(s) ==
    CHOOSE p \in 0..(Len(s) - 2) :
        /\ Slice(s, p, p + 2) = <<"<", "<">>
        /\ \A k \in 0..(p - 1) : Slice(s, k, k + 2) # <<"<", "<">>

\* the 0-based offsets at which the lines after the opener's line start
LaterLineStarts(s) ==
    {b \in (OpenerAt(s) + 1)..(Len(s) - 1) : s[b] = "\n"}

\* the line of s that starts at offset b, without its newline
LineAt(s, b) ==
    Slice(s, b, CHOOSE e \in b..Len(s) :
                    /\ \A i \in (b + 1)..e : s[i] # "\n"
                    /\ e = Len(s) \/ s[e + 1] = "\n")

ClosingLines(s) ==
    {b \in LaterLineStarts(s) : trim(LineAt(s, b)) = MarkerAt(s, OpenerAt(s))}

\* the offset at which the closing line starts
ClosingAt(s) == CHOOSE b \in ClosingLines(s) : \A c \in ClosingLines(s) : b <= c

\* the lines strictly between the opener's line and the closing line, joined
\* by their newlines, without the newline before the closing line
ContentOf(s) ==
    LET first == CHOOSE b \in LaterLineStarts(s) : \A c \in LaterLineStarts(s) : b <= c
    IN IF ClosingAt(s) = first THEN <<>> ELSE Slice(s, first, ClosingAt(s) - 1)

FirstHeredoc(toks) ==
    toks[CHOOSE i \in 1..Len(toks) :
             /\ toks[i].kind = "Heredoc"
             /\ \A k \in 1..(i - 1) : toks[k].kind # "Heredoc"]

(***************************************************************************)
(* C8.  For a heredoc opened by "<<M", the token's text is the lines       *)
(* strictly after the opener's line and strictly before the first later    *)
(* line whose trimmed text is M, joined by their newlines and without the  *)
(* newline before the closing line; nothing on the opener's line is        *)
(* content, and the opener's line is never the closing line, so a heredoc  *)
(* with no later closing line is unterminated.                             *)
(***************************************************************************)
C8_HeredocContent ==
    LexReturned /\ src \in HeredocTexts =>
        IF ClosingLines(src) = {}
        THEN pc = "lexerr" /\ err.kind = "UnterminatedHeredoc"
        ELSE /\ pc # "lexerr"
             /\ \E i \in 1..Len(tokens) : tokens[i].kind = "Heredoc"
             /\ FirstHeredoc(tokens).marker = MarkerAt(src, OpenerAt(src))
             /\ FirstHeredoc(tokens).text = ContentOf(src)

\* s occurs in t as a run of consecutive bytes
IsInfix(s, t) ==
    \E p \in 0..(Len(t) - Len(s)) : SubSeq(t, p + 1, p + Len(s)) = s

\* a directive list laid out by the blank-line rule: one empty line before
\* a directive that owns a block and after one that owned one, none before
\* the first directive, the nested lists laid out the same way
RECURSIVE SpacedList(_, _, _)
SpacedList(ds, indent, i) ==
    IF i > Len(ds) THEN <<>>
    ELSE (IF i > 1 /\ (IsSome(ds[i].block) \/ IsSome(ds[i - 1].block))
          THEN <<"\n">> ELSE <<>>)
         \o BareLine(ds[i], indent)
         \o (IF IsSome(ds[i].block)
             THEN <<" ", "{", "\n">>
                  \o SpacedList(Unwrap(ds[i].block), indent + 1, 1)
                  \o repeat_tab(indent) \o <<"}", "\n">>
             ELSE <<"\n">>)
         \o SpacedList(ds, indent, i + 1)

\* a top-level directive list between its braces, laid out by the rule
SpacedBlock(ds) == <<"{", "\n">> \o SpacedList(ds, 1, 1) \o <<"}", "\n">>

(***************************************************************************)
(* C11 as stated.  Every directive list format renders (the top-level     *)
(* list of the global-options block, of a snippet, of a named route and    *)
(* of a site block, and every nested block) has exactly one empty line     *)
(* before each                                                             *)
(* directive that owns a block and after each directive that owns one,     *)
(* none before the first directive and never two in a row: the formatted   *)
(* text of a Document holds, after each block's header, that block's list  *)
(* laid out by the rule.                                                   *)
(***************************************************************************)
C11_BlankLinesAroundBlocks ==
    origin = "doc" /\ Len(outs) >= 1 =>
        /\ IsSome(built.global_options) =>
               starts_with(outs[1], SpacedBlock(Unwrap(built.global_options).directives))
        /\ \A i \in 1..Len(built.snippets) :
               IsInfix(<<"(">> \o built.snippets[i].name \o <<")", " ">>
                       \o SpacedBlock(built.snippets[i].directives), outs[1])
        /\ \A i \in 1..Len(built.named_routes) :
               IsInfix(<<"&", "(">> \o built.named_routes[i].name \o <<")", " ">>
                       \o SpacedBlock(built.named_routes[i].directives), outs[1])
        /\ \A i \in 1..Len(built.sites) :
               IsInfix(format_addresses(built.sites[i].addresses, 0) \o <<" ">>
                       \o SpacedBlock(built.sites[i].directives), outs[1])

\* a top-level directive that owns a block, its nested list laid out by
\* the blank-line rule
NestedSpaced(d) ==
    BareLine(d, 1) \o <<" ", "{", "\n">>
    \o SpacedList(Unwrap(d.block), 2, 1) \o <<"\t", "}", "\n">>

AllNestedSpaced(ds, out) ==
    \A i \in 1..Len(ds) : IsSome(ds[i].block) => IsInfix(NestedSpaced(ds[i]), out)

(***************************************************************************)
(* C11 amended.  In the top-level directive list of a site block and in    *)
(* every nested block that format renders (not in the top-level list of    *)
(* the global-options block, of a snippet or of a named route) there is    *)
(* exactly one empty line before each directive that owns a block and      *)
(* after each directive that owns one, none before the first directive     *)
(* and never two in a row: the formatted text holds, after each site's     *)
(* header, the site's list laid out by the rule, and for each directive    *)
(* of the other blocks that owns a block, that block laid out by the rule. *)
(***************************************************************************)
C11_BlankLinesInSitesAndNested ==
    origin = "doc" /\ Len(outs) >= 1 =>
        /\ IsSome(built.global_options) =>
               AllNestedSpaced(Unwrap(built.global_options).directives, outs[1])
        /\ \A i \in 1..Len(built.snippets) :
               AllNestedSpaced(built.snippets[i].directives, outs[1])
        /\ \A i \in 1..Len(built.named_routes) :
               AllNestedSpaced(built.named_routes[i].directives, outs[1])
        /\ \A i \in 1..Len(built.sites) :
               IsInfix(format_addresses(built.sites[i].addresses, 0) \o <<" ">>
                       \o SpacedBlock(built.sites[i].directives), outs[1])

\* a named route alone, holding a plain directive and then one whose block
\* holds a directive with a block between two plain ones
C11_Witness ==
    /\ origin = "doc" /\ Len(outs) >= 1
    /\ built.sites = <<>> /\ Len(built.named_routes) = 1
    /\ Len(built.named_routes[1].directives) = 2
    /\ ~IsSome(built.named_routes[1].directives[1].block)
    /\ IsSome(built.named_routes[1].directives[2].block)
    /\ Len(Unwrap(built.named_routes[1].directives[2].block)) = 3
    /\ IsInfix(<<"\t", "\t", "y", "\n", "\n", "\t", "\t", "y", " ", "{">>, outs[1])

\* the top-level blocks of a Document in the order of the sections, each
\* rendered on its own
RECURSIVE BlockTexts(_, _)
BlockTexts(blocks, kind) ==
    IF blocks = <<>> THEN <<>>
    ELSE <<IF kind = "snippet" THEN format_snippet(Head(blocks))
           ELSE IF kind = "route" THEN format_named_route(Head(blocks))
           ELSE format_site_block(Head(blocks))>>
         \o BlockTexts(Tail(blocks), kind)

SectionTexts(d) ==
    (IF IsSome(d.global_options)
     THEN <<format_global_options(Unwrap(d.global_options))>> ELSE <<>>)
    \o BlockTexts(d.snippets, "snippet")
    \o BlockTexts(d.named_routes, "route")
    \o BlockTexts(d.sites, "site")

\* the texts ss in order with one newline between two neighbours
RECURSIVE JoinedByNewline(_)
JoinedByNewline(ss) ==
    IF ss = <<>> THEN <<>>
    ELSE IF Len(ss) = 1 THEN ss[1]
    ELSE ss[1] \o <<"\n">> \o JoinedByNewline(Tail(ss))

(***************************************************************************)
(* C12.  format emits the global-options block if present, then the        *)
(* snippets, the named routes and the site blocks, each kind in stored     *)
(* order, with exactly one empty line between two consecutive blocks and   *)
(* none before the first: the formatted text of a Document with a block    *)
(* is its blocks' renderings in that order, every block ending its last    *)
(* line, joined by single newlines, and it does not begin with a newline.  *)
(***************************************************************************)
C12_SectionOrder ==
    origin = "doc" /\ Len(outs) >= 1 /\ SectionTexts(built) # <<>> =>
        /\ outs[1] = JoinedByNewline(SectionTexts(built))
        /\ Head(outs[1]) # "\n"
        /\ \A i \in 1..Len(SectionTexts(built)) :
               /\ ends_with(SectionTexts(built)[i], <<"}", "\n">>)
               /\ ~ends_with(SectionTexts(built)[i], <<"\n", "\n">>)
               /\ Head(SectionTexts(built)[i]) # "\n"

C12_Witness ==
    /\ origin = "doc" /\ Len(outs) >= 1
    /\ IsSome(built.global_options)
    /\ Len(built.snippets) = 2 /\ Len(built.named_routes) = 2
    /\ Len(built.sites) = 2
    /\ built.sites[1] # built.sites[2]

\* the text format returned last, in a state reached by Format
LastOut == outs[Len(outs)]

(***************************************************************************)
(* C13.  For every Document the output of format ends with a newline and   *)
(* does not end with two newlines, and for the empty Document it is        *)
(* exactly one newline: right after format has returned, the text it       *)
(* returned for the Document doc has that form.                            *)
(***************************************************************************)
C13_TrailingNewline ==
    pc = "text" /\ outs # <<>> =>
        /\ ends_with(LastOut, <<"\n">>)
        /\ ~ends_with(LastOut, <<"\n", "\n">>)
        /\ doc = EmptyDoc => LastOut = <<"\n">>

C13_Witness ==
    origin = "doc" /\ pc = "text" /\ Len(outs) = 1 /\ built = EmptyDoc

\* t without one leading "https://" or "http://"
AfterScheme(t) ==
    IF starts_with(t, HttpsPrefix) THEN SubSeq(t, Len(HttpsPrefix) + 1, Len(t))
    ELSE IF starts_with(t, HttpPrefix) THEN SubSeq(t, Len(HttpPrefix) + 1, Len(t))
    ELSE t

\* the 1-based places of byte c in t
PlacesOf(t, c) == {i \in 1..Len(t) : t[i] = c}

LeastOf(S) == CHOOSE i \in S : \A k \in S : i <= k
GreatestOf(S) == CHOOSE i \in S : \A k \in S : i >= k

\* the host:port segment: the bytes before the first '/'
SegmentOf(r) ==
    IF PlacesOf(r, "/") = {} THEN r ELSE SubSeq(r, 1, LeastOf(PlacesOf(r, "/")) - 1)

\* the bytes after the last ':' of a segment that holds one
SuffixOf(seg) == SubSeq(seg, GreatestOf(PlacesOf(seg, ":")) + 1, Len(seg))

RECURSIVE StripZeros(_)
StripZeros(s) == IF s # <<>> /\ Head(s) = "0" THEN StripZeros(Tail(s)) ELSE s

\* a is before or equal to b, digit strings of one length compared as numbers
RECURSIVE DigitsLeq(_, _)
DigitsLeq(a, b) ==
    IF a = <<>> THEN TRUE
    ELSE IF Head(a) # Head(b) THEN DigitValue(Head(a)) < DigitValue(Head(b))
    ELSE DigitsLeq(Tail(a), Tail(b))

\* the digits of a text that may be an integer: the text without one
\* leading '+', which integer parsing accepts
SignStripped(s) == IF s # <<>> /\ Head(s) = "+" THEN Tail(s) ELSE s

\* s is the decimal text of an integer in 0..65535
IsU16Text(s) ==
    /\ SignStripped(s) # <<>>
    /\ \A i \in 1..Len(SignStripped(s)) : SignStripped(s)[i] \in Digits
    /\ \/ Len(StripZeros(SignStripped(s))) < 5
       \/ /\ Len(StripZeros(SignStripped(s))) = 5
          /\ DigitsLeq(StripZeros(SignStripped(s)), <<"6", "5", "5", "3", "5">>)

\* the integer a decimal text stands for, from its last digit up
RECURSIVE NumberOf(_)
NumberOf(s) ==
    IF s = <<>> THEN 0
    ELSE 10 * NumberOf(SubSeq(s, 1, Len(s) - 1)) + DigitValue(s[Len(s)])

\* the segment is split at its last ':'
SplitsPort(seg) == PlacesOf(seg, ":") # {} /\ IsU16Text(SuffixOf(seg))

(***************************************************************************)
(* C14.  parse_address never fails.  It strips one leading "http://" or    *)
(* "https://" into the scheme, takes everything from the first '/' of the  *)
(* remainder as the path, and splits the host:port segment at its last     *)
(* ':' into host and port exactly when the text after that colon is an     *)
(* unsigned 16-bit integer; otherwise the whole segment is the host and    *)
(* the port is absent: the Address returned for a text has these fields.   *)
(***************************************************************************)
C14_ParseAddress ==
    pc = "address" =>
        /\ address.scheme = (IF starts_with(text, HttpsPrefix) THEN Some("Https")
                             ELSE IF starts_with(text, HttpPrefix) THEN Some("Http")
                             ELSE None)
        /\ address.path = (IF PlacesOf(AfterScheme(text), "/") = {} THEN None
                           ELSE Some(SubSeq(AfterScheme(text),
                                            LeastOf(PlacesOf(AfterScheme(text), "/")),
                                            Len(AfterScheme(text)))))
        /\ IF SplitsPort(SegmentOf(AfterScheme(text)))
           THEN /\ address.host
                       = SubSeq(SegmentOf(AfterScheme(text)), 1,
                                GreatestOf(PlacesOf(SegmentOf(AfterScheme(text)), ":")) - 1)
                /\ address.port
                       = Some(NumberOf(SignStripped(SuffixOf(SegmentOf(AfterScheme(text))))))
           ELSE /\ address.host = SegmentOf(AfterScheme(text))
                /\ address.port = None

C14_Witness ==
    /\ pc = "address" /\ outs = <<>>
    /\ text = HttpPrefix \o <<"a", ":", "7", ":", "0", "8", "0", "/", "p", ":", "9">>
    /\ address = Address(Some("Http"), <<"a", ":", "7">>, Some(80),
                         Some(<<"/", "p", ":", "9">>))

\* every directive of the list, and of the blocks nested in it, has a name
RECURSIVE AllNamed(_)
AllNamed(ds) ==
    \A i \in 1..Len(ds) :
        /\ ds[i].name # <<>>
        /\ IsSome(ds[i].block) => AllNamed(Unwrap(ds[i].block))

CountOf(s, c) == Cardinality({i \in 1..Len(s) : s[i] = c})

\* the number of tokens of a kind
KindCount(toks, kind) == Cardinality({i \in 1..Len(toks) : toks[i].kind = kind})

BraceAt(s) ==
    (CHOOSE p \in 1..(Len(s) - 1) :
         /\ s[p] = "{" /\ s[p + 1] = "$"
         /\ \A q \in 1..(p - 1) : ~(s[q] = "{" /\ s[q + 1] = "$")) - 1

\* no '}' stands between the first "{$" and the end of its line
Unclosed(s) ==
    \A q \in (BraceAt(s) + 1)..Len(s) :
        s[q] = "}" => \E k \in (BraceAt(s) + 1)..(q - 1) : s[k] = "\n"

(***************************************************************************)
(* C17.  When "{$" is not followed by a closing '}' before the next        *)
(* newline or the end of input, the env-var attempt raises no error and    *)
(* emits no token, and leaves the position, line and column as they were:  *)
(* the '{' is emitted as an OpenBrace token with the span of the '{' and   *)
(* scanning resumes at the '$'.  For a text with one such "{$": tokenize   *)
(* succeeds, no EnvVar token is emitted, and an OpenBrace token with the   *)
(* line and column of the '{' is followed by a token that begins with '$'  *)
(* one column further.                                                     *)
(***************************************************************************)
C17_EnvVarRollback ==
    LexReturned /\ src \in EnvTexts /\ Unclosed(src) =>
        /\ pc # "lexerr"
        /\ KindCount(tokens, "EnvVar") = 0
        /\ \E i \in 1..(Len(tokens) - 1) :
               /\ tokens[i].kind = "OpenBrace"
               /\ tokens[i].text = <<"{">>
               /\ tokens[i].span = Span(LineOf(src, BraceAt(src)), ColumnOf(src, BraceAt(src)))
               /\ \A k \in 1..(i - 1) : tokens[k].kind # "OpenBrace"
               /\ tokens[i + 1].kind = "Word"
               /\ Head(tokens[i + 1].text) = "$"
               /\ tokens[i + 1].span
                      = Span(LineOf(src, BraceAt(src)), ColumnOf(src, BraceAt(src)) + 1)

C17_Witness ==
    /\ LexReturned /\ pc = "tokens"
    /\ src = <<"x", "\n", "\t", "{", "$", "A", ":", "b", "\n", "c", "}">>
    /\ Len(tokens) = 6

\* token i is a snippet or named-route header where parse expects a
\* top-level block: nothing but newlines and comments precedes it, or it
\* follows a newline and parse accepts the tokens before it
HeaderReached(toks, i) ==
    /\ IsHeader(toks[i].text)
    /\ \/ \A k \in 1..(i - 1) : toks[k].kind \in {"Newline", "Comment"}
       \/ /\ i > 1
          /\ toks[i - 1].kind = "Newline"
          /\ parse(SubSeq(toks, 1, i - 1)).ok

\* the 1-based place of the first token after place i that is neither a
\* Newline nor a Comment; Len(toks) + 1 when there is none
RECURSIVE NextSignificant(_, _)
NextSignificant(toks, i) ==
    IF i + 1 > Len(toks) THEN Len(toks) + 1
    ELSE IF toks[i + 1].kind \in {"Newline", "Comment"} THEN NextSignificant(toks, i + 1)
    ELSE i + 1

\* parse has returned on the tokens of the text the run began with
FirstParseReturned == origin = "text" /\ outs = <<>> /\ pc \in {"doc", "parseerr"}

(***************************************************************************)
(* C18.  When a snippet header "(name)" or a named-route header "&(name)"  *)
(* is not followed, after optional newlines and comments, by '{', parse    *)
(* fails with ExpectedOpenBrace; found is the text of the token met        *)
(* instead and the span that token's span, or found is None and the span   *)
(* the last token's span when the input ended; no Document is returned.    *)
(***************************************************************************)
C18_ExpectedOpenBrace ==
    FirstParseReturned =>
        \A i \in 1..Len(tokens) :
            /\ HeaderReached(tokens, i)
            /\ \/ NextSignificant(tokens, i) > Len(tokens)
               \/ tokens[NextSignificant(tokens, i)].kind # "OpenBrace"
            => /\ pc = "parseerr"
               /\ err.kind = "ExpectedOpenBrace"
               /\ doc = EmptyDoc
               /\ IF NextSignificant(tokens, i) > Len(tokens)
                  THEN /\ err.found = None
                       /\ err.span = tokens[Len(tokens)].span
                  ELSE /\ err.found = Some(tokens[NextSignificant(tokens, i)].text)
                       /\ err.span = tokens[NextSignificant(tokens, i)].span

C18_Witness ==
    /\ FirstParseReturned
    /\ src = SampleRouteNoBrace
    /\ pc = "parseerr"
    /\ err.kind = "ExpectedOpenBrace"
    /\ err.found = Some(<<"}">>)
    /\ err.span = Span(5, 1)

\* the tokens without the Comment tokens
RECURSIVE WithoutComments(_)
WithoutComments(toks) ==
    IF toks = <<>> THEN <<>>
    ELSE IF Head(toks).kind = "Comment" THEN WithoutComments(Tail(toks))
    ELSE <<Head(toks)>> \o WithoutComments(Tail(toks))

(***************************************************************************)
(* C19.  For the tokens tokenize returns for a text, parse succeeds on     *)
(* them if and only if it succeeds on the same tokens without the Comment  *)
(* tokens, and the two Documents are then equal.                           *)
(***************************************************************************)
C19_CommentsDiscarded ==
    FirstParseReturned =>
        LET Same(r) ==
                /\ (pc = "doc") = r.ok
                /\ pc = "doc" => doc = r.doc
        IN Same(parse(WithoutComments(tokens)))

C19_Witness ==
    /\ FirstParseReturned
    /\ src = SampleComments
    /\ pc = "doc"
    /\ KindCount(tokens, "Comment") = 9
    /\ Len(doc.snippets) = 1 /\ Len(doc.sites) = 1
    /\ Len(doc.snippets[1].directives) = 2

\* the tokens split into lines at the Newline tokens, the Newline tokens
\* left out; the last line is the one after the last Newline
RECURSIVE TokenLines(_, _)
TokenLines(toks, line) ==
    IF toks = <<>> THEN <<line>>
    ELSE IF Head(toks).kind = "Newline" THEN <<line>> \o TokenLines(Tail(toks), <<>>)
    ELSE TokenLines(Tail(toks), Append(line, Head(toks)))

\* the matcher the token after a directive name stands for, None for none
MatcherOf(tok) ==
    IF tok.kind \in {"Newline", "OpenBrace", "CloseBrace", "Comment"} THEN None
    ELSE IF tok.text = <<"*">> THEN Some(MatcherAll)
    ELSE IF tok.text # <<>> /\ Head(tok.text) = "@" THEN Some(MatcherNamed(Tail(tok.text)))
    ELSE IF tok.text # <<>> /\ Head(tok.text) = "/" THEN Some(MatcherPath(tok.text))
    ELSE None

\* the matcher of a directive line lt of tokens
LineMatcher(lt) == IF Len(lt) >= 2 THEN MatcherOf(lt[2]) ELSE None

\* the tokens of a directive line that are its arguments
LineArguments(lt) ==
    SubSeq(lt, IF LineMatcher(lt) = None THEN 2 ELSE 3, Len(lt))

(***************************************************************************)
(* C20.  In a directive only the token right after the name, on the same   *)
(* line and of any kind but Newline, OpenBrace, CloseBrace and Comment,    *)
(* can become the matcher: text "*" gives All, text beginning with '@'     *)
(* gives Named(the rest), text beginning with '/' gives Path(the text);   *)
(* any other token there and every later token, whatever it begins with,   *)
(* becomes an argument.  For a site block of directive lines without       *)
(* blocks: parse succeeds and the directive of every line has the name,    *)
(* the matcher and the arguments its tokens give by this rule.             *)
(***************************************************************************)
C20_MatcherPosition ==
    FirstParseReturned /\ src \in SiteTexts =>
        /\ pc = "doc"
        /\ Len(doc.sites) = 1
        /\ Len(doc.sites[1].directives) = Len(TokenLines(tokens, <<>>)) - 3
        /\ \A j \in 1..Len(doc.sites[1].directives) :
               LET Is(d, lt) ==
                       /\ d.name = lt[1].text
                       /\ d.matcher = LineMatcher(lt)
                       /\ d.block = None
                       /\ Len(d.arguments) = Len(LineArguments(lt))
                       /\ \A k \in 1..Len(d.arguments) :
                              d.arguments[k].val = LineArguments(lt)[k].text
               IN Is(doc.sites[1].directives[j], TokenLines(tokens, <<>>)[j + 1])

C20_Witness ==
    /\ FirstParseReturned /\ src \in SiteTexts /\ pc = "doc"
    /\ Len(doc.sites[1].directives) = 2
    /\ doc.sites[1].directives[1]
           = Directive(<<"x">>, Some(MatcherPath(<<"/", "p">>)), <<>>, None)
    /\ tokens[5].kind = "QuotedString"
    /\ doc.sites[1].directives[2]
           = Directive(<<"x">>, None,
                       <<Unquoted(<<"a">>), Unquoted(<<"/", "p">>),
                         Unquoted(<<"@", "m">>), Unquoted(<<"*">>)>>, None)

\* the braces open before token i
DepthBefore(toks, i) ==
    Cardinality({k \in 1..(i - 1) : toks[k].kind = "OpenBrace"})
    - Cardinality({k \in 1..(i - 1) : toks[k].kind = "CloseBrace"})

\* the first tokens of the top-level entries of a text whose entries each
\* begin a line and end with the line of their '}': the tokens outside
\* every block that begin a line, in order
RECURSIVE EntryTokens(_, _)
EntryTokens(toks, i) ==
    IF i > Len(toks) THEN <<>>
    ELSE (IF /\ toks[i].kind \notin {"Newline", "Comment"}
             /\ DepthBefore(toks, i) = 0
             /\ (i = 1 \/ toks[i - 1].kind = "Newline")
          THEN <<toks[i]>> ELSE <<>>)
         \o EntryTokens(toks, i + 1)

\* what the first token of a top-level entry makes of the entry; first
\* tells the first entry of the text
EntryKind(tok, first) ==
    IF first /\ tok.kind = "OpenBrace" THEN "global"
    ELSE IF Len(tok.text) > 2 /\ Head(tok.text) = "(" /\ tok.text[Len(tok.text)] = ")"
    THEN "snippet"
    ELSE IF /\ Len(tok.text) > 3 /\ tok.text[1] = "&" /\ tok.text[2] = "("
            /\ tok.text[Len(tok.text)] = ")"
    THEN "route"
    ELSE "site"

\* of the entries es from place i on, those of one kind, each as the name
\* or the address list the entry's first token gives
RECURSIVE EntriesOf(_, _, _)
EntriesOf(es, i, kind) ==
    IF i > Len(es) THEN <<>>
    ELSE (IF EntryKind(es[i], i = 1) # kind THEN <<>>
          ELSE IF kind = "snippet" THEN <<SubSeq(es[i].text, 2, Len(es[i].text) - 1)>>
          ELSE IF kind = "route" THEN <<SubSeq(es[i].text, 3, Len(es[i].text) - 1)>>
          ELSE IF es[i].kind = "OpenBrace" THEN << <<>> >>
          ELSE << <<parse_address(es[i].text)>> >>)
         \o EntriesOf(es, i + 1, kind)

\* the names of a list of snippets or named routes, the address lists of a
\* list of sites
RECURSIVE NamesOf(_)
NamesOf(blocks) ==
    IF blocks = <<>> THEN <<>> ELSE <<Head(blocks).name>> \o NamesOf(Tail(blocks))

RECURSIVE AddressesOf(_)
AddressesOf(sites) ==
    IF sites = <<>> THEN <<>>
    ELSE <<Head(sites).addresses>> \o AddressesOf(Tail(sites))

RECURSIVE FirstRun(_)
FirstRun(toks) ==
    IF toks = <<>> \/ Head(toks).kind \in {"OpenBrace", "Newline"} THEN <<>>
    ELSE <<Head(toks)>> \o FirstRun(Tail(toks))

\* a text without its trailing commas
RECURSIVE CommasRemoved(_)
CommasRemoved(t) ==
    IF t # <<>> /\ t[Len(t)] = "," THEN CommasRemoved(SubSeq(t, 1, Len(t) - 1)) ELSE t

\* the Addresses the tokens run give, one each
RECURSIVE RunAddresses(_)
RunAddresses(run) ==
    IF run = <<>> THEN <<>>
    ELSE <<parse_address(CommasRemoved(Head(run).text))>> \o RunAddresses(Tail(run))

\* the tokens after the first Newline token, none when there is no Newline
RECURSIVE AfterFirstNewline(_)
AfterFirstNewline(toks) ==
    IF toks = <<>> THEN <<>>
    ELSE IF Head(toks).kind = "Newline" THEN Tail(toks)
    ELSE AfterFirstNewline(Tail(toks))

\* the site block that begins the tokens has a '{...}' block: the first
\* token after its address line that is no Newline and no Comment is '{'
HasBlock(toks) ==
    /\ NextSignificant(toks, Len(FirstRun(toks))) <= Len(toks)
    /\ toks[NextSignificant(toks, Len(FirstRun(toks)))].kind = "OpenBrace"

\* the first site of the Document has the addresses of the tokens run; a
\* site without block has no directives and is followed by the entries
\* parse makes of the tokens after its line
FirstSiteIs(run) ==
    /\ pc = "doc"
    /\ doc.sites # <<>>
    /\ doc.sites[1].addresses = RunAddresses(run)
    /\ ~HasBlock(tokens) =>
           LET Rest(r) ==
                   /\ r.ok
                   /\ doc.sites[1].directives = <<>>
                   /\ doc.sites = <<doc.sites[1]>> \o r.doc.sites
                   /\ doc.global_options = None
                   /\ doc.snippets = r.doc.snippets
                   /\ doc.named_routes = r.doc.named_routes
           IN Rest(parse(AfterFirstNewline(tokens)))

(***************************************************************************)
(* C22 as stated.  In a site block every token before the first OpenBrace  *)
(* or Newline contributes exactly one Address, parse_address of the        *)
(* token's text without its trailing commas; a site without a '{...}'      *)
(* block has no directives and the tokens after it are parsed as new       *)
(* top-level entries.                                                      *)
(***************************************************************************)
C22_EveryTokenAnAddress ==
    FirstParseReturned /\ src \in AddressLineTexts => FirstSiteIs(FirstRun(tokens))

(***************************************************************************)
(* C22 amended.  In a site block every token other than a Comment before   *)
(* the first OpenBrace or Newline contributes exactly one Address,         *)
(* parse_address of the token's text without its trailing commas; a site   *)
(* without a '{...}' block has no directives and the tokens after it are   *)
(* parsed as new top-level entries.                                        *)
(***************************************************************************)
C22_SiteAddresses ==
    FirstParseReturned /\ src \in AddressLineTexts =>
        FirstSiteIs(WithoutComments(FirstRun(tokens)))

C22_Witness ==
    /\ FirstParseReturned /\ pc = "doc"
    /\ src = <<"b", ",", " ", "c", ":", "8", "0", ",", ",", " ", "#", " ", "c">>
    /\ doc.sites = <<SiteBlock(<<Address(None, <<"b">>, None, None),
                                 Address(None, <<"c">>, Some(80), None)>>, <<>>)>>

\* in a text of words, blanks and line terminators: a line terminator
\* begins at the 1-based place p (a CR, or an LF that follows no CR)
TerminatorAt(s, p) ==
    \/ s[p] = "\r"
    \/ s[p] = "\n" /\ (p = 1 \/ s[p - 1] # "\r")

\* a word begins at place p
WordAt(s, p) ==
    /\ s[p] \notin {" ", "\r", "\n"}
    /\ (p = 1 \/ s[p - 1] \in {" ", "\r", "\n"})

\* the places where the tokens of the text begin, in order
RECURSIVE TokenPlaces(_, _)
TokenPlaces(s, p) ==
    IF p > Len(s) THEN <<>>
    ELSE (IF TerminatorAt(s, p) \/ WordAt(s, p) THEN <<p>> ELSE <<>>)
         \o TokenPlaces(s, p + 1)

\* the line of place p: one more than the line terminators that begin before it
LineAtPlace(s, p) == 1 + Cardinality({q \in 1..(p - 1) : TerminatorAt(s, q)})

\* the column of place p: one more than the bytes between the end of the
\* last line terminator before p and p
RECURSIVE ColumnAtPlace(_, _)
ColumnAtPlace(s, p) ==
    IF p = 1 THEN 1
    ELSE IF s[p - 1] = "\n" \/ (s[p - 1] = "\r" /\ s[p] # "\n") THEN 1
    ELSE 1 + ColumnAtPlace(s, p - 1)

(***************************************************************************)
(* C23.  Every token tokenize returns has span.line >= 1 and               *)
(* span.column >= 1, and its span is the line and column of the token's    *)
(* first character (for a Newline token, of the first character of the     *)
(* line terminator), the line starting at 1 and increasing by one per      *)
(* line terminator and the column restarting at 1 after it, for lines      *)
(* that end in LF, in CRLF or in a lone CR.                                *)
(***************************************************************************)
C23_SpanOfFirstCharacter ==
    LexReturned /\ src \in SpanTexts =>
        /\ pc # "lexerr"
        /\ Len(tokens) = Len(TokenPlaces(src, 1))
        /\ \A i \in 1..Len(tokens) :
               /\ tokens[i].span.line >= 1
               /\ tokens[i].span.column >= 1
               /\ i <= Len(TokenPlaces(src, 1)) =>
                      /\ tokens[i].span.line = LineAtPlace(src, TokenPlaces(src, 1)[i])
                      /\ tokens[i].span.column = ColumnAtPlace(src, TokenPlaces(src, 1)[i])

\* the bytes of a text up to its first white space
RECURSIVE FirstWord(_)
FirstWord(s) ==
    IF s = <<>> \/ Head(s) \in {" ", "\t", "\r", "\n"} THEN <<>>
    ELSE <<Head(s)>> \o FirstWord(Tail(s))

\* the bytes of a text before its first "{$", all of them when it has none
RECURSIVE BeforeEnv(_)
BeforeEnv(s) ==
    IF s = <<>> THEN <<>>
    ELSE IF Len(s) >= 2 /\ s[1] = "{" /\ s[2] = "$" THEN <<>>
    ELSE <<Head(s)>> \o BeforeEnv(Tail(s))

\* the tokens made of the first word of the text: those that begin on line
\* 1 within its columns
FromFirstWord(toks, s) ==
    {i \in 1..Len(toks) : toks[i].span.column <= Len(FirstWord(s))}

(***************************************************************************)
(* C24 as stated.  Once a Word token has started, every '{' and every '}'  *)
(* up to the next space, tab, carriage return or newline is absorbed into  *)
(* that same Word: no OpenBrace, CloseBrace or EnvVar token is produced    *)
(* from inside a word, and a word ends only at white space, a newline or   *)
(* the end of input.  For a text that begins with a letter: the first      *)
(* token is a Word holding all bytes up to the first white space, and it   *)
(* is the only token made of them.                                         *)
(***************************************************************************)
C24_BracesAbsorbed ==
    LexReturned /\ src \in BraceTexts =>
        /\ pc # "lexerr"
        /\ tokens[1].kind = "Word"
        /\ tokens[1].text = FirstWord(src)
        /\ FromFirstWord(tokens, src) = {1}

(***************************************************************************)
(* C24 amended.  Once a Word token has started, every '}' and every '{'    *)
(* that is not immediately followed by '$' is absorbed into that same      *)
(* Word up to the next space, tab, carriage return or newline; a word      *)
(* ends only at white space, a newline, the end of input, or before a      *)
(* '{' immediately followed by '$', where an env-var attempt begins and    *)
(* yields an EnvVar token, or an OpenBrace token when it fails.  For a     *)
(* text that begins with a letter: the first token is a Word holding all   *)
(* bytes up to the first white space or "{$"; it is the only token made    *)
(* of them when no "{$" follows, and else the next token is the EnvVar or  *)
(* OpenBrace token that begins at the "{$".                                *)
(***************************************************************************)
C24_BracesAbsorbedUpToEnv ==
    LexReturned /\ src \in BraceTexts =>
        /\ pc # "lexerr"
        /\ tokens[1].kind = "Word"
        /\ tokens[1].text = BeforeEnv(FirstWord(src))
        /\ IF BeforeEnv(FirstWord(src)) = FirstWord(src)
           THEN FromFirstWord(tokens, src) = {1}
           ELSE /\ Len(tokens) >= 2
                /\ tokens[2].kind \in {"EnvVar", "OpenBrace"}
                /\ tokens[2].span = Span(1, Len(BeforeEnv(FirstWord(src))) + 1)

C24_Witness ==
    /\ LexReturned /\ pc = "tokens"
    /\ src = <<"a", "{", "}", "{", "$", "B", "}", " ", "b">>
    /\ tokens[1].text = <<"a", "{", "}">>
    /\ tokens[2].kind = "EnvVar"

\* a top-level directive list with no empty line between its directives,
\* the nested lists laid out by the blank-line rule
RECURSIVE TightList(_, _)
TightList(ds, i) ==
    IF i > Len(ds) THEN <<>>
    ELSE BareLine(ds[i], 1)
         \o (IF IsSome(ds[i].block)
             THEN <<" ", "{", "\n">>
                  \o SpacedList(Unwrap(ds[i].block), 2, 1)
                  \o <<"\t", "}", "\n">>
             ELSE <<"\n">>)
         \o TightList(ds, i + 1)

TightBlock(ds) == <<"{", "\n">> \o TightList(ds, 1) \o <<"}", "\n">>

(***************************************************************************)
(* C25.  The top-level directive lists of the global-options block, of     *)
(* snippets and of named routes are rendered with no blank line between    *)
(* their directives, even next to a directive that owns a nested block;    *)
(* the blank-line spacing around block-owning directives is applied only   *)
(* in the top-level list of a site block and inside nested blocks: the     *)
(* formatted text of a Document holds, after the header of each of the     *)
(* first three kinds of block, its list without empty lines between the    *)
(* top-level directives, and after each site's header its list laid out    *)
(* by the blank-line rule, nested lists by the rule everywhere.            *)
(***************************************************************************)
C25_SpacingOnlyInSites ==
    origin = "doc" /\ Len(outs) >= 1 =>
        /\ IsSome(built.global_options) =>
               starts_with(outs[1], TightBlock(Unwrap(built.global_options).directives))
        /\ \A i \in 1..Len(built.snippets) :
               IsInfix(<<"(">> \o built.snippets[i].name \o <<")", " ">>
                       \o TightBlock(built.snippets[i].directives), outs[1])
        /\ \A i \in 1..Len(built.named_routes) :
               IsInfix(<<"&", "(">> \o built.named_routes[i].name \o <<")", " ">>
                       \o TightBlock(built.named_routes[i].directives), outs[1])
        /\ \A i \in 1..Len(built.sites) :
               IsInfix(format_addresses(built.sites[i].addresses, 0) \o <<" ">>
                       \o SpacedBlock(built.sites[i].directives), outs[1])

\* the global options, a snippet, a named route and a site hold the same
\* list: a directive with a nested block of three, then a plain one
C25_Witness ==
    /\ origin = "doc" /\ Len(outs) >= 1
    /\ IsSome(built.global_options)
    /\ Len(built.snippets) = 1 /\ Len(built.named_routes) = 1
    /\ Len(built.sites) = 2
    /\ Len(built.sites[1].directives) = 2
    /\ IsSome(built.sites[1].directives[1].block)
    /\ Len(Unwrap(built.sites[1].directives[1].block)) = 3
    /\ ~IsSome(built.sites[1].directives[2].block)
    /\ TightBlock(built.sites[1].directives) # SpacedBlock(built.sites[1].directives)

\* the number of '}' tokens from place i on that stand outside every open
\* block; depth counts the blocks open before place i
RECURSIVE TopCloses(_, _, _)
TopCloses(toks, i, depth) ==
    IF i > Len(toks) THEN 0
    ELSE IF toks[i].kind = "OpenBrace" THEN TopCloses(toks, i + 1, depth + 1)
    ELSE IF toks[i].kind = "CloseBrace"
    THEN IF depth = 0 THEN 1 + TopCloses(toks, i + 1, 0)
         ELSE TopCloses(toks, i + 1, depth - 1)
    ELSE TopCloses(toks, i + 1, depth)

\* the number of site addresses of a Document made of the text "}"
RECURSIVE CloseAddresses(_)
CloseAddresses(sites) ==
    IF sites = <<>> THEN 0
    ELSE Cardinality({k \in 1..Len(Head(sites).addresses) :
                         Head(sites).addresses[k] = parse_address(<<"}">>)})
         + CloseAddresses(Tail(sites))

C27_HeredocEndsLine ==
    FirstParseReturned /\ src \in {SampleHeredoc, SampleHeredocLines} =>
        /\ pc = "doc"
        /\ Len(doc.sites) = 1
        /\ doc.sites[1].directives =
               <<Directive(<<"x">>, None, <<Heredoc(<<"M">>, <<"h", "i">>)>>, None),
                 Leaf(<<"y">>)>>

(***************************************************************************)
(* C28.  tokenize never returns the error kind UnexpectedCharacter: the    *)
(* only error kinds it returns are UnterminatedString,                     *)
(* UnterminatedBacktick, UnterminatedHeredoc and EmptyHeredocMarker,       *)
(* because every byte that reaches read_word starts a non-empty Word:      *)
(* every returned error has one of the four kinds and every returned Word  *)
(* token holds at least one byte.                                          *)
(***************************************************************************)
C28_NoUnexpectedCharacter ==
    LexReturned =>
        /\ pc = "lexerr" =>
               err.kind \in {"UnterminatedString", "UnterminatedBacktick",
                             "UnterminatedHeredoc", "EmptyHeredocMarker"}
        /\ pc = "tokens" =>
               \A i \in 1..Len(tokens) :
                   tokens[i].kind = "Word" => tokens[i].text # <<>>

\* a backslash reaches read_word and takes the space after it into the
\* word; a second backslash ends the input
C28_Witness ==
    /\ LexReturned /\ pc = "tokens"
    /\ src = <<"\\", " ", "\\">>
    /\ Len(tokens) = 1
    /\ tokens[1].kind = "Word" /\ tokens[1].text = src

\* at lexer state st an env-var attempt begins and fails
AttemptFails(input, st) ==
    /\ st.pos < Len(input)
    /\ input[st.pos + 1] = "{"
    /\ ~try_read_env_var(input, st).ok

(***************************************************************************)
(* C29.  For every finite input tokenize terminates with a token sequence  *)
(* or an error: the byte position never exceeds the input length, every    *)
(* iteration of the main scanning loop strictly increases it, and a        *)
(* failed env-var attempt, the only step that moves the position           *)
(* backwards, is followed in the same iteration by consuming the '{'.      *)
(* Over the loop states of the run: the loop has left within               *)
(* Len(input) + 1 iterations, every position is at most Len(input), every  *)
(* iteration ends at a greater position than it began, and an iteration    *)
(* whose attempt fails finds the position back on the '{' and ends one     *)
(* byte after it.                                                          *)
(***************************************************************************)
C29_LexerProgress ==
    LexReturned =>
        LET Progress(tr) ==
                /\ ~tr[Len(tr)].run
                /\ pc = "lexerr" => err.kind # "Diverged"
                /\ \A k \in 1..Len(tr) : tr[k].st.pos <= Len(src)
                /\ \A k \in 1..(Len(tr) - 1) :
                       /\ tr[k].st.pos < Len(src) => tr[k + 1].st.pos > tr[k].st.pos
                       /\ AttemptFails(src, tr[k].st) =>
                              /\ try_read_env_var(src, tr[k].st).st.pos = tr[k].st.pos
                              /\ tr[k + 1].st.pos = tr[k].st.pos + 1
        IN Progress(TokenizeStates(src))

\* a word, a failed attempt, a word: the loop states stand at 0, 1, 2, 3
\* and the loop leaves at 3
C29_Witness ==
    /\ LexReturned /\ pc = "tokens"
    /\ src = <<"a", "{", "$">>
    /\ LET At(tr) == [k \in 1..Len(tr) |-> tr[k].st.pos] = <<0, 1, 2, 3, 3>>
       IN At(TokenizeStates(src))
    /\ AttemptFails(src, TokenizeStates(src)[2].st)

\* r is what a parsing function returned when called with the cursor at p:
\* the cursor is within the n tokens, not before p, and past p when the
\* function returned a value
Forward(r, p, n) ==
    /\ r.pos \in p..n
    /\ r.ok => r.pos > p

(***************************************************************************)
(* C30.  For every finite token sequence, those no lexer run produces      *)
(* included, parse terminates without reading outside the sequence: the    *)
(* cursor only moves forward, stays within 0..=len, and every top-level    *)
(* entry and every directive consumes at least one token.  parse has       *)
(* returned a Document or an error raised with the cursor within the       *)
(* sequence; and from every cursor position before the end, the parsing    *)
(* of a snippet, a named route, a site block or a directive leaves the     *)
(* cursor within the sequence, not before where it was, and at least one   *)
(* token further when it succeeds.                                         *)
(***************************************************************************)
C30_ParserProgress ==
    origin = "tokens" /\ pc # "tokens" =>
        /\ pc \in {"doc", "parseerr"}
        /\ pc = "parseerr" => err.at \in 0..Len(tokens)
        /\ \A p \in 0..(Len(tokens) - 1) :
               /\ Forward(parse_snippet(tokens, p), p, Len(tokens))
               /\ Forward(parse_named_route(tokens, p), p, Len(tokens))
               /\ Forward(parse_site_block(tokens, p), p, Len(tokens))
               /\ Forward(parse_directive(tokens, p), p, Len(tokens))

\* a '}' token with the text "&(r)", '{' and '}': a named route r
C30_Witness ==
    /\ origin = "tokens" /\ pc = "doc"
    /\ Len(tokens) = 3
    /\ tokens[1].kind = "CloseBrace" /\ tokens[1].text = <<"&", "(", "r", ")">>
    /\ doc = Caddyfile(None, <<>>, <<Named(<<"r">>, <<>>)>>, <<>>)

=============================================================================
